---- MODULE Spec2Model ----
(***************************************************************************)
(* Model of the Merise toolchain: conceptual model (MCD) -> logical model  *)
(* (MLD) -> physical model (MPD) -> SQL table order, with the textual       *)
(* re-serialisation of the logical and physical models and their parsers.   *)
(*                                                                          *)
(* Names are strings; the name-pattern tests of the code (startsWith,       *)
(* endsWith, includes, toLowerCase) are computed on the characters.  A      *)
(* serialised model is the sequence of its lines, each line a string that   *)
(* the parsers scan character by character as their regular expressions do. *)
(***************************************************************************)
EXTENDS Integers, Sequences, FiniteSets, TLC

\* ------------------------------------------------------------------------
\* Strings
\* ------------------------------------------------------------------------

\* String.prototype.startsWith
startsWith(s, p) == Len(s) >= Len(p) /\ SubSeq(s, 1, Len(p)) = p

\* String.prototype.endsWith
endsWith(s, p) == Len(s) >= Len(p) /\ SubSeq(s, Len(s) - Len(p) + 1, Len(s)) = p

\* String.prototype.includes
includes(s, p) == \E i \in 1..(Len(s) - Len(p) + 1) : SubSeq(s, i, i + Len(p) - 1) = p

UpperLetters == "ABCDEFGHIJKLMNOPQRSTUVWXYZ"

LowerLetters == "abcdefghijklmnopqrstuvwxyz"

\* the i-th character of a string, as a string
charAt(s, i) == SubSeq(s, i, i)

UpperSet == {charAt(UpperLetters, i) : i \in 1..Len(UpperLetters)}

LowerSet == {charAt(LowerLetters, i) : i \in 1..Len(LowerLetters)}

LowerMap ==
    [c \in UpperSet |->
        charAt(LowerLetters, CHOOSE i \in 1..Len(UpperLetters) : charAt(UpperLetters, i) = c)]

UpperMap ==
    [c \in LowerSet |->
        charAt(UpperLetters, CHOOSE i \in 1..Len(LowerLetters) : charAt(LowerLetters, i) = c)]

\* toLowerCase of one character
lowerChar(c) == IF c \in UpperSet THEN LowerMap[c] ELSE c

\* toUpperCase of one character
upperChar(c) == IF c \in LowerSet THEN UpperMap[c] ELSE c

RECURSIVE toUpperCase(_)
\* String.prototype.toUpperCase
toUpperCase(s) ==
    IF Len(s) = 0 THEN ""
    ELSE upperChar(SubSeq(s, 1, 1)) \o toUpperCase(SubSeq(s, 2, Len(s)))

RECURSIVE toLowerCase(_)
\* String.prototype.toLowerCase
toLowerCase(s) ==
    IF Len(s) = 0 THEN ""
    ELSE lowerChar(SubSeq(s, 1, 1)) \o toLowerCase(SubSeq(s, 2, Len(s)))

\* ------------------------------------------------------------------------
\* Model types (models/types.ts)
\* ------------------------------------------------------------------------

Cardinalities == {"0,1", "1,1", "0,n", "1,n"}

Strategies == {"table_per_class", "single_table", "table_per_subclass"}

Dialects == {"mariadb", "mysql", "postgresql"}

\* foreignKey?: undefined on a logical column
NoFk == [columnName |-> "", referencedTable |-> "", referencedColumn |-> ""]

\* foreignKey?: undefined on a physical column
NoMpdFk == [columnName |-> "", referencedTable |-> "", referencedColumn |-> "",
            onDelete |-> "", onUpdate |-> ""]

\* a conceptual model with nothing in it
NoMcd == [entities |-> <<>>, relations |-> <<>>, inheritances |-> <<>>,
          associativeEntities |-> <<>>]

\* Map<string,string>: get on a missing key gives undefined (here "")
MapGet(m, k) == IF k \in DOMAIN m THEN m[k] ELSE ""

\* Map.prototype.set
MapSet(m, k, v) == [x \in (DOMAIN m) \cup {k} |-> IF x = k THEN v ELSE m[x]]

EmptyMap == [x \in {} |-> ""]

\* ------------------------------------------------------------------------
\* converter/mldToMpd.ts
\* ------------------------------------------------------------------------

DefaultVarcharLength == 255

Varchar(n) == "VARCHAR(" \o ToString(n) \o ")"

\* inferSqlType: ordered, first-match-wins name patterns
inferSqlType(colName, isPrimaryKey, dialect, defaultVarcharLength) ==
    LET name == toLowerCase(colName) IN
    IF isPrimaryKey /\ (startsWith(name, "id") \/ endsWith(name, "id"))
        THEN (IF dialect = "postgresql" THEN "SERIAL" ELSE "INT")
    ELSE IF startsWith(name, "id_") \/ endsWith(name, "_id") \/ name = "id"
        THEN "INT"
    ELSE IF startsWith(name, "ref_") \/ endsWith(name, "_ref") \/ name = "ref"
        THEN "VARCHAR(20)"
    ELSE IF includes(name, "datetime") \/ includes(name, "timestamp")
        THEN (IF dialect = "postgresql" THEN "TIMESTAMP" ELSE "DATETIME")
    ELSE IF startsWith(name, "date_") \/ endsWith(name, "_date") \/ name = "date"
        THEN "DATE"
    ELSE IF startsWith(name, "prix") \/ startsWith(name, "montant")
            \/ startsWith(name, "total") \/ startsWith(name, "price")
            \/ startsWith(name, "amount")
        THEN "DECIMAL(10,2)"
    ELSE IF startsWith(name, "quantite") \/ startsWith(name, "nombre")
            \/ startsWith(name, "nb_") \/ startsWith(name, "quantity")
            \/ startsWith(name, "count") \/ startsWith(name, "num_")
        THEN "INT"
    ELSE IF endsWith(name, "_bool") \/ startsWith(name, "est_")
            \/ startsWith(name, "is_") \/ startsWith(name, "has_")
            \/ startsWith(name, "a_")
        THEN "BOOLEAN"
    ELSE IF name = "description" \/ name = "contenu" \/ name = "content"
            \/ name = "commentaire"
        THEN "TEXT"
    ELSE IF name = "type_discriminator" \/ name = "type"
        THEN "VARCHAR(50)"
    ELSE Varchar(defaultVarcharLength)

RECURSIVE FlattenColumns(_)
\* the (table, column) pairs in the order of the nested for-loops
FlattenColumns(tables) ==
    IF tables = <<>> THEN <<>>
    ELSE [i \in 1..Len(Head(tables).columns) |->
             [table |-> Head(tables).name, col |-> Head(tables).columns[i]]]
         \o FlattenColumns(Tail(tables))

RECURSIVE ResolveNonFk(_, _, _, _)
\* first pass: the types of the non-foreign-key columns
ResolveNonFk(cells, resolved, dialect, len) ==
    IF cells = <<>> THEN resolved
    ELSE LET c == Head(cells) IN
         ResolveNonFk(Tail(cells),
            IF c.col.foreignKey = NoFk
            THEN MapSet(resolved, <<c.table, c.col.name>>,
                        inferSqlType(c.col.name, c.col.isPrimaryKey, dialect, len))
            ELSE resolved,
            dialect, len)

\* the type a foreign-key column takes, given the types resolved so far
FkType(fk, resolved, dialect, len) ==
    LET refType == MapGet(resolved, <<fk.referencedTable, fk.referencedColumn>>) IN
    IF refType # ""
    THEN (IF refType = "SERIAL" THEN "INT" ELSE refType)
    ELSE inferSqlType(fk.referencedColumn, FALSE, dialect, len)

RECURSIVE ResolveFk(_, _, _, _)
\* second pass: the foreign keys, in table order
ResolveFk(cells, resolved, dialect, len) ==
    IF cells = <<>> THEN resolved
    ELSE LET c == Head(cells) IN
         ResolveFk(Tail(cells),
            IF c.col.foreignKey # NoFk
            THEN MapSet(resolved, <<c.table, c.col.name>>,
                        FkType(c.col.foreignKey, resolved, dialect, len))
            ELSE resolved,
            dialect, len)

NotNull == [type |-> "NOT NULL", expression |-> ""]

Unique == [type |-> "UNIQUE", expression |-> ""]

\* constraint assembly without the find(c => c.type === 'NOT NULL') guard of
\* the foreign-key branch
ColumnConstraintsUnguarded(mldCol) ==
    (IF mldCol.isPrimaryKey THEN <<NotNull>> ELSE <<>>)
    \o (IF includes(toLowerCase(mldCol.name), "email") THEN <<Unique>> ELSE <<>>)
    \o (IF mldCol.foreignKey # NoFk THEN <<NotNull>> ELSE <<>>)

\* constraint assembly of one column
ColumnConstraints(mldCol) ==
    LET pk == IF mldCol.isPrimaryKey THEN <<NotNull>> ELSE <<>>
        em == IF includes(toLowerCase(mldCol.name), "email") THEN <<Unique>> ELSE <<>>
        cs == pk \o em
    IN  IF mldCol.foreignKey # NoFk /\ ~(\E i \in 1..Len(cs) : cs[i].type = "NOT NULL")
        THEN cs \o <<NotNull>>
        ELSE cs

\* the physical column built for a logical column
MpdColumnOf(tableName, mldCol, resolved, dialect, len) ==
    LET r == MapGet(resolved, <<tableName, mldCol.name>>) IN
    [name |-> mldCol.name,
     sqlType |-> IF r # "" THEN r
                 ELSE inferSqlType(mldCol.name, mldCol.isPrimaryKey, dialect, len),
     isPrimaryKey |-> mldCol.isPrimaryKey,
     constraints |-> ColumnConstraints(mldCol),
     foreignKey |-> IF mldCol.foreignKey # NoFk
                    THEN [columnName |-> mldCol.foreignKey.columnName,
                          referencedTable |-> mldCol.foreignKey.referencedTable,
                          referencedColumn |-> mldCol.foreignKey.referencedColumn,
                          onDelete |-> "CASCADE", onUpdate |-> "CASCADE"]
                    ELSE NoMpdFk]

\* convertMldToMpd: the tables of the physical model
convertMldToMpd(tables, dialect, len) ==
    LET cells    == FlattenColumns(tables)
        resolved == ResolveFk(cells, ResolveNonFk(cells, EmptyMap, dialect, len),
                              dialect, len)
    IN  [t \in 1..Len(tables) |->
            [name |-> tables[t].name,
             columns |-> [i \in 1..Len(tables[t].columns) |->
                 MpdColumnOf(tables[t].name, tables[t].columns[i], resolved,
                             dialect, len)]]]

\* ------------------------------------------------------------------------
\* converter/mcdToMld.ts
\* ------------------------------------------------------------------------

\* entityMap.get(name) of a name the map does not hold
NoEntity == [name |-> "", attributes |-> <<>>]

\* entityMap: filled in entity order, so the last entity of a name wins
EntityGet(entities, name) ==
    LET S == {i \in 1..Len(entities) : entities[i].name = name} IN
    IF S = {} THEN NoEntity
    ELSE entities[CHOOSE i \in S : \A j \in S : j <= i]

\* Array.prototype.findIndex on a predicate given as the set of matching
\* indexes (0 when nothing matches)
FirstIndex(S) == IF S = {} THEN 0 ELSE CHOOSE i \in S : \A j \in S : i <= j

\* getPrimaryKey: the name of the first primary-key attribute, or null ("")
getPrimaryKey(entity) ==
    LET i == FirstIndex({k \in 1..Len(entity.attributes) :
                            entity.attributes[k].isPrimaryKey}) IN
    IF i = 0 THEN "" ELSE entity.attributes[i].name

\* mld.tables.findIndex(t => t.name === name)
FindTable(tables, name) == FirstIndex({i \in 1..Len(tables) : tables[i].name = name})

\* table.columns.find(c => c.name === name) !== undefined
HasColumn(table, name) == \E i \in 1..Len(table.columns) : table.columns[i].name = name

\* Array.prototype.splice(idx, 1)
RemoveAt(s, idx) == SubSeq(s, 1, idx - 1) \o SubSeq(s, idx + 1, Len(s))

\* step 1 with the kept attribute objects themselves as columns
EntityTableOfAttributes(entity) ==
    LET keep == SelectSeq(entity.attributes, LAMBDA a : ~a.isDerived) IN
    [name |-> entity.name,
     columns |-> [i \in 1..Len(keep) |->
         [name |-> keep[i].name, isPrimaryKey |-> keep[i].isPrimaryKey,
          foreignKey |-> NoFk, ref |-> keep[i].ref]]]

\* step 1: one table per entity, derived attributes dropped
EntityTable(entity) ==
    LET keep == SelectSeq(entity.attributes, LAMBDA a : ~a.isDerived) IN
    [name |-> entity.name,
     columns |-> [i \in 1..Len(keep) |->
         [name |-> keep[i].name, isPrimaryKey |-> keep[i].isPrimaryKey,
          foreignKey |-> NoFk]]]

\* makePairKey: the unordered pair (names hold no '|')
makePairKey(a, b) == {a, b}

\* buildPairCount, read at one pair
PairCount(relations, pair) ==
    Cardinality({i \in 1..Len(relations) :
        /\ Len(relations[i].participants) = 2
        /\ makePairKey(relations[i].participants[1].entityName,
                       relations[i].participants[2].entityName) = pair})

\* isMultipleRelation
isMultipleRelation(rel, relations) ==
    /\ Len(rel.participants) = 2
    /\ PairCount(relations, makePairKey(rel.participants[1].entityName,
                                        rel.participants[2].entityName)) > 1

\* the name addForeignKey gives the column (roleName "" is undefined)
FkColName(targetPk, roleName) ==
    IF roleName # "" THEN targetPk \o "_" \o roleName ELSE targetPk

\* addForeignKey
addForeignKey(tables, sourceTableName, targetTableName, entities, roleName) ==
    LET si       == FindTable(tables, sourceTableName)
        target   == EntityGet(entities, targetTableName)
        targetPk == getPrimaryKey(target)
        fkCol    == FkColName(targetPk, roleName)
    IN  IF si = 0 \/ target = NoEntity THEN tables
        ELSE IF targetPk = "" THEN tables
        ELSE IF HasColumn(tables[si], fkCol) THEN tables
        ELSE [tables EXCEPT ![si].columns = @ \o
                <<[name |-> fkCol, isPrimaryKey |-> FALSE,
                   foreignKey |-> [columnName |-> fkCol,
                                   referencedTable |-> targetTableName,
                                   referencedColumn |-> targetPk]]>>]

RECURSIVE AppendAttributes(_, _, _)
\* push each attribute whose name the table does not hold yet
AppendAttributes(columns, attrs, keepPk) ==
    IF attrs = <<>> THEN columns
    ELSE LET a == Head(attrs) IN
         AppendAttributes(
            IF \E i \in 1..Len(columns) : columns[i].name = a.name THEN columns
            ELSE columns \o <<[name |-> a.name,
                               isPrimaryKey |-> keepPk /\ a.isPrimaryKey,
                               foreignKey |-> NoFk]>>,
            Tail(attrs), keepPk)

\* addRelationAttributes
addRelationAttributes(tables, tableName, rel) ==
    LET ti == FindTable(tables, tableName) IN
    IF ti = 0 THEN tables
    ELSE [tables EXCEPT ![ti].columns = AppendAttributes(@, rel.attributes, FALSE)]

\* createAssociativeTable: the key columns, one per participant with a key
AssociativeKeyColumns(rel, entities) ==
    LET pkOf(i) == getPrimaryKey(EntityGet(entities, rel.participants[i].entityName))
        withPk  == SelectSeq([i \in 1..Len(rel.participants) |-> i],
                             LAMBDA i : pkOf(i) # "")
        hasConflict(i) ==
            Cardinality({j \in 1..Len(rel.participants) : pkOf(j) = pkOf(i)}) > 1
        colName(i) == IF hasConflict(i)
                      THEN pkOf(i) \o "_" \o toLowerCase(rel.participants[i].entityName)
                      ELSE pkOf(i)
    IN  [k \in 1..Len(withPk) |->
            [name |-> colName(withPk[k]), isPrimaryKey |-> TRUE,
             foreignKey |-> [columnName |-> colName(withPk[k]),
                             referencedTable |-> rel.participants[withPk[k]].entityName,
                             referencedColumn |-> pkOf(withPk[k])]]]

\* createAssociativeTable without the loop over rel.attributes
createAssociativeTableKeysOnly(tables, rel, entities) ==
    tables \o <<[name |-> rel.name, columns |-> AssociativeKeyColumns(rel, entities)]>>

\* createAssociativeTable naming the table after the first participant
createAssociativeTableOfParticipant(tables, rel, entities) ==
    tables \o
    <<[name |-> rel.participants[1].entityName,
       columns |-> AssociativeKeyColumns(rel, entities) \o
                   [i \in 1..Len(rel.attributes) |->
                       [name |-> rel.attributes[i].name, isPrimaryKey |-> FALSE,
                        foreignKey |-> NoFk]]]>>

\* createAssociativeTable
createAssociativeTable(tables, rel, entities) ==
    tables \o
    <<[name |-> rel.name,
       columns |-> AssociativeKeyColumns(rel, entities) \o
                   [i \in 1..Len(rel.attributes) |->
                       [name |-> rel.attributes[i].name, isPrimaryKey |-> FALSE,
                        foreignKey |-> NoFk]]]>>

isMany(c) == c = "0,n" \/ c = "1,n"

isOne(c) == c = "0,1" \/ c = "1,1"

\* the participant (1 or 2) whose table receives the foreign key, 0 for n:n
FkOwner(rel) ==
    LET c1 == rel.participants[1].cardinality
        c2 == rel.participants[2].cardinality
    IN  IF isOne(c1) /\ isMany(c2) THEN 1
        ELSE IF isMany(c1) /\ isOne(c2) THEN 2
        ELSE IF isOne(c1) /\ isOne(c2) THEN (IF c1 = "1,1" THEN 1 ELSE 2)
        ELSE 0

\* handleBinaryRelation
handleBinaryRelation(tables, rel, entities, relations) ==
    LET o    == FkOwner(rel)
        role == IF isMultipleRelation(rel, relations) THEN rel.name ELSE ""
    IN  IF o = 0 THEN createAssociativeTable(tables, rel, entities)
        ELSE addRelationAttributes(
                addForeignKey(tables, rel.participants[o].entityName,
                              rel.participants[3 - o].entityName, entities, role),
                rel.participants[o].entityName, rel)

RECURSIVE HandleRelations(_, _, _, _)
\* step 2: the relations in declaration order
HandleRelations(tables, rest, entities, relations) ==
    IF rest = <<>> THEN tables
    ELSE HandleRelations(
            IF Len(Head(rest).participants) = 2
            THEN handleBinaryRelation(tables, Head(rest), entities, relations)
            ELSE createAssociativeTable(tables, Head(rest), entities),
            Tail(rest), entities, relations)

\* table_per_class on one child table: the parent's key as PK + FK in front,
\* and the child's own same-named non-FK column removed
TablePerClassChild(table, parentName, parentPk) ==
    IF \E i \in 1..Len(table.columns) :
            table.columns[i].foreignKey.referencedTable = parentName
    THEN table
    ELSE LET cols == <<[name |-> parentPk, isPrimaryKey |-> TRUE,
                        foreignKey |-> [columnName |-> parentPk,
                                        referencedTable |-> parentName,
                                        referencedColumn |-> parentPk]]>>
                     \o table.columns
             existing == {i \in 1..Len(cols) : cols[i].name = parentPk}
             idx == FirstIndex({i \in 1..Len(cols) :
                        cols[i].name = parentPk /\ cols[i].foreignKey = NoFk})
         IN  [table EXCEPT !.columns =
                 IF Cardinality(existing) > 1 /\ idx > 0 THEN RemoveAt(cols, idx)
                 ELSE cols]

RECURSIVE TablePerClass(_, _, _, _)
\* handleInheritance, case 'table_per_class'
TablePerClass(tables, childNames, parentName, parentPk) ==
    IF childNames = <<>> THEN tables
    ELSE LET ci == FindTable(tables, Head(childNames)) IN
         TablePerClass(
            IF ci = 0 THEN tables
            ELSE [tables EXCEPT ![ci] = TablePerClassChild(@, parentName, parentPk)],
            Tail(childNames), parentName, parentPk)

RECURSIVE AppendEveryNonKeyAttribute(_, _)
\* single_table without the test of the names the parent holds
AppendEveryNonKeyAttribute(columns, attrs) ==
    IF attrs = <<>> THEN columns
    ELSE LET a == Head(attrs) IN
         AppendEveryNonKeyAttribute(
            IF ~a.isPrimaryKey
            THEN columns \o <<[name |-> a.name, isPrimaryKey |-> FALSE,
                               foreignKey |-> NoFk]>>
            ELSE columns,
            Tail(attrs))

RECURSIVE AppendNonKeyAttributes(_, _)
\* single_table: the child's non-key attributes the parent does not hold yet
AppendNonKeyAttributes(columns, attrs) ==
    IF attrs = <<>> THEN columns
    ELSE LET a == Head(attrs) IN
         AppendNonKeyAttributes(
            IF ~a.isPrimaryKey /\ ~(\E i \in 1..Len(columns) : columns[i].name = a.name)
            THEN columns \o <<[name |-> a.name, isPrimaryKey |-> FALSE,
                               foreignKey |-> NoFk]>>
            ELSE columns,
            Tail(attrs))

RECURSIVE SingleTableChildren(_, _, _, _)
\* single_table: per child, copy its attributes into the parent table (held
\* at index pi; 0 once that table object has been spliced out of the list),
\* then splice the child's table out
SingleTableChildren(tables, pi, childNames, entities) ==
    IF childNames = <<>> THEN tables
    ELSE LET childEntity == EntityGet(entities, Head(childNames))
             t1  == IF pi > 0 /\ childEntity # NoEntity
                    THEN [tables EXCEPT ![pi].columns =
                             AppendNonKeyAttributes(@, childEntity.attributes)]
                    ELSE tables
             idx == FindTable(t1, Head(childNames))
         IN  SingleTableChildren(
                IF idx > 0 THEN RemoveAt(t1, idx) ELSE t1,
                IF idx = 0 \/ idx > pi THEN pi ELSE IF idx = pi THEN 0 ELSE pi - 1,
                Tail(childNames), entities)

\* handleInheritance, case 'single_table'
SingleTable(tables, childNames, parentName, entities) ==
    LET pi == FindTable(tables, parentName) IN
    IF pi = 0 THEN tables
    ELSE SingleTableChildren(
            IF HasColumn(tables[pi], "type_discriminator") THEN tables
            ELSE [tables EXCEPT ![pi].columns = @ \o
                    <<[name |-> "type_discriminator", isPrimaryKey |-> FALSE,
                       foreignKey |-> NoFk]>>],
            pi, childNames, entities)

RECURSIVE UnshiftAttributes(_, _)
\* table_per_subclass: unshift each parent attribute the child does not hold
UnshiftAttributes(columns, attrs) ==
    IF attrs = <<>> THEN columns
    ELSE LET a == Head(attrs) IN
         UnshiftAttributes(
            IF \E i \in 1..Len(columns) : columns[i].name = a.name THEN columns
            ELSE <<[name |-> a.name, isPrimaryKey |-> a.isPrimaryKey,
                    foreignKey |-> NoFk]>> \o columns,
            Tail(attrs))

RECURSIVE TablePerSubclassChildren(_, _, _)
TablePerSubclassChildren(tables, childNames, parentEntity) ==
    IF childNames = <<>> THEN tables
    ELSE LET ci == FindTable(tables, Head(childNames)) IN
         TablePerSubclassChildren(
            IF ci = 0 THEN tables
            ELSE [tables EXCEPT ![ci].columns =
                     UnshiftAttributes(@, parentEntity.attributes)],
            Tail(childNames), parentEntity)

\* handleInheritance, case 'table_per_subclass'
TablePerSubclass(tables, childNames, parentName, entities) ==
    LET parentEntity == EntityGet(entities, parentName) IN
    IF parentEntity = NoEntity THEN tables
    ELSE LET t1  == TablePerSubclassChildren(tables, childNames, parentEntity)
             idx == FindTable(t1, parentName)
         IN  IF idx > 0 THEN RemoveAt(t1, idx) ELSE t1

\* handleInheritance
handleInheritance(tables, parentName, childNames, strategy, entities) ==
    LET parentPk == getPrimaryKey(EntityGet(entities, parentName)) IN
    IF parentPk = "" THEN tables
    ELSE CASE strategy = "table_per_class" ->
                TablePerClass(tables, childNames, parentName, parentPk)
           [] strategy = "single_table" ->
                SingleTable(tables, childNames, parentName, entities)
           [] strategy = "table_per_subclass" ->
                TablePerSubclass(tables, childNames, parentName, entities)
           [] OTHER -> tables

RECURSIVE HandleInheritances(_, _, _, _)
\* step 3: the inheritance groups, each with its own strategy or the default
HandleInheritances(tables, rest, inheritanceStrategy, entities) ==
    IF rest = <<>> THEN tables
    ELSE LET inh == Head(rest)
             strategy == IF inh.strategy # "" THEN inh.strategy ELSE inheritanceStrategy
         IN  HandleInheritances(
                handleInheritance(tables, inh.parentEntity, inh.childEntities,
                                  strategy, entities),
                Tail(rest), inheritanceStrategy, entities)

\* mcd.relations.find(r => r.name === name), as an index (0: undefined)
FindRelation(relations, name) ==
    FirstIndex({i \in 1..Len(relations) : relations[i].name = name})

\* the key columns of a table synthesised for an associative entity
PromotedKeyColumns(rel, entities) ==
    LET pkOf(i) == getPrimaryKey(EntityGet(entities, rel.participants[i].entityName))
        withPk  == SelectSeq([i \in 1..Len(rel.participants) |-> i],
                             LAMBDA i : pkOf(i) # "")
    IN  [k \in 1..Len(withPk) |->
            [name |-> pkOf(withPk[k]), isPrimaryKey |-> TRUE,
             foreignKey |-> [columnName |-> pkOf(withPk[k]),
                             referencedTable |-> rel.participants[withPk[k]].entityName,
                             referencedColumn |-> pkOf(withPk[k])]]]

\* step 4 for one associative entity
PromoteAssociative(tables, assoc, mcd) ==
    LET ri == FindRelation(mcd.relations, assoc.relationName) IN
    IF ri = 0 THEN tables
    ELSE LET rel == mcd.relations[ri]
             ti  == FirstIndex({i \in 1..Len(tables) :
                        tables[i].name = rel.name \/ tables[i].name = assoc.name})
             t1  == IF ti > 0 THEN tables
                    ELSE tables \o <<[name |-> assoc.name,
                                      columns |-> PromotedKeyColumns(rel, mcd.entities)]>>
             ai  == IF ti > 0 THEN ti ELSE Len(t1)
         IN  [t1 EXCEPT ![ai].columns = AppendAttributes(@, assoc.attributes, TRUE)]

RECURSIVE PromoteAssociatives(_, _, _)
\* step 4: the associative entities in declaration order
PromoteAssociatives(tables, rest, mcd) ==
    IF rest = <<>> THEN tables
    ELSE PromoteAssociatives(PromoteAssociative(tables, Head(rest), mcd),
                             Tail(rest), mcd)

\* convertMcdToMld: the tables of the logical model
convertMcdToMld(mcd, inheritanceStrategy) ==
    LET t1 == [i \in 1..Len(mcd.entities) |-> EntityTable(mcd.entities[i])]
        t2 == HandleRelations(t1, mcd.relations, mcd.entities, mcd.relations)
        t3 == HandleInheritances(t2, mcd.inheritances, inheritanceStrategy, mcd.entities)
    IN  PromoteAssociatives(t3, mcd.associativeEntities, mcd)

\* ------------------------------------------------------------------------
\* Scanning a line (the regular expressions of the parsers)
\* ------------------------------------------------------------------------

\* the characters \d matches
DigitChars == {charAt("0123456789", i) : i \in 1..10}

\* the characters \w matches
WordChars == UpperSet \cup LowerSet \cup DigitChars \cup {"_"}

\* the characters \s matches, among those a line can hold
SpaceChars == {" ", "\t"}

RECURSIVE RunEnd(_, _, _)
\* the index after the longest run of characters of `set` starting at i
RunEnd(s, i, set) ==
    IF i <= Len(s) /\ charAt(s, i) \in set THEN RunEnd(s, i + 1, set) ELSE i

RECURSIVE RunStart(_, _, _)
\* the index before the longest run of characters of `set` ending at i
RunStart(s, i, set) ==
    IF i >= 1 /\ charAt(s, i) \in set THEN RunStart(s, i - 1, set) ELSE i

\* String.prototype.trim
trim(s) ==
    LET a == RunEnd(s, 1, SpaceChars)
        b == RunStart(s, Len(s), SpaceChars)
    IN  IF a > b THEN "" ELSE SubSeq(s, a, b)

\* s holds the literal p at index i, letter case ignored (the /i flag)
LitAt(s, i, p) ==
    /\ i >= 1
    /\ i + Len(p) - 1 <= Len(s)
    /\ \A k \in 1..Len(p) : lowerChar(charAt(s, i + k - 1)) = lowerChar(charAt(p, k))

\* line.replace(/,\s*$/, '').trim()
cleanLine(line) ==
    LET b == RunStart(line, Len(line), SpaceChars) IN
    trim(IF b >= 1 /\ charAt(line, b) = "," THEN SubSeq(line, 1, b - 1) ELSE line)

\* /^TABLE\s+(\w+)\s*\{?\s*$/i on a trimmed line: the table name, or ""
tableMatch(line) ==
    LET a == RunEnd(line, 6, SpaceChars)
        b == RunEnd(line, a, WordChars)
        c == RunEnd(line, b, SpaceChars)
        d == IF c <= Len(line) /\ charAt(line, c) = "{" THEN c + 1 ELSE c
        e == RunEnd(line, d, SpaceChars)
    IN  IF LitAt(line, 1, "TABLE") /\ a > 6 /\ b > a /\ e = Len(line) + 1
        THEN SubSeq(line, a, b - 1) ELSE ""

\* /\[FK\s*->\s*(\w+)\.(\w+) at index i: table, column and the index after
\* the column, or next = 0
fkHeadAt(s, i) ==
    LET a == RunEnd(s, i + 3, SpaceChars)
        b == RunEnd(s, a + 2, SpaceChars)
        c == RunEnd(s, b, WordChars)
        d == RunEnd(s, c + 1, WordChars)
        ok == /\ LitAt(s, i, "[FK") /\ LitAt(s, a, "->") /\ c > b
              /\ LitAt(s, c, ".") /\ d > c + 1
    IN  IF ok THEN [table |-> SubSeq(s, b, c - 1), column |-> SubSeq(s, c + 1, d - 1),
                    next |-> d]
        ELSE [table |-> "", column |-> "", next |-> 0]

\* ------------------------------------------------------------------------
\* main.ts generateMldText and parser/mldParser.ts
\* ------------------------------------------------------------------------

RECURSIVE joinFlags(_)
\* flags.join(' ')
joinFlags(flags) ==
    IF flags = <<>> THEN ""
    ELSE IF Len(flags) = 1 THEN flags[1]
    ELSE flags[1] \o " " \o joinFlags(Tail(flags))

\* a faulty column line, whose FK flag names the column itself instead of
\* the referenced column
MldColumnLineOwnName(col) ==
    LET flags == (IF col.isPrimaryKey THEN <<"[PK]">> ELSE <<>>) \o
                 (IF col.foreignKey # NoFk
                  THEN <<"[FK -> " \o col.foreignKey.referencedTable \o "."
                         \o col.name \o "]">>
                  ELSE <<>>)
    IN  "    " \o col.name \o (IF flags # <<>> THEN " " \o joinFlags(flags) ELSE "")

\* the line generateMldText writes for one column
MldColumnLine(col) ==
    LET flags == (IF col.isPrimaryKey THEN <<"[PK]">> ELSE <<>>) \o
                 (IF col.foreignKey # NoFk
                  THEN <<"[FK -> " \o col.foreignKey.referencedTable \o "."
                         \o col.foreignKey.referencedColumn \o "]">>
                  ELSE <<>>)
    IN  "    " \o col.name \o (IF flags # <<>> THEN " " \o joinFlags(flags) ELSE "")

RECURSIVE trimLines(_)
\* lines.join('\n').trim(), on the lines: the blank lines at the end go (the
\* first line written is a TABLE line, and the parsers trim every line)
trimLines(lines) ==
    IF lines # <<>> /\ trim(lines[Len(lines)]) = ""
    THEN trimLines(SubSeq(lines, 1, Len(lines) - 1))
    ELSE lines

RECURSIVE MldTextLines(_)
MldTextLines(tables) ==
    IF tables = <<>> THEN <<>>
    ELSE <<"TABLE " \o Head(tables).name \o " {">>
         \o [i \in 1..Len(Head(tables).columns) |->
                MldColumnLine(Head(tables).columns[i])]
         \o <<"}", "">>
         \o MldTextLines(Tail(tables))

\* generateMldText: the text, as its lines
generateMldText(tables) == trimLines(MldTextLines(tables))

\* the first index of flags where the logical FK flag matches, 0 if none
mldFkMatch(flags) ==
    FirstIndex({i \in 1..Len(flags) :
        LET h == fkHeadAt(flags, i) IN h.next > 0 /\ LitAt(flags, h.next, "]")})

\* parseMldColumn: the column of a line, or NoColumn (null)
NoColumn == [name |-> "", isPrimaryKey |-> FALSE, foreignKey |-> NoFk]

parseMldColumn(line) ==
    LET cleaned == cleanLine(line)
        e       == RunEnd(cleaned, 1, WordChars)
        name    == SubSeq(cleaned, 1, e - 1)
        flags   == SubSeq(cleaned, RunEnd(cleaned, e, SpaceChars), Len(cleaned))
        fi      == mldFkMatch(flags)
    IN  IF e = 1 THEN NoColumn
        ELSE [name |-> name,
              isPrimaryKey |-> \E i \in 1..Len(flags) : LitAt(flags, i, "[PK]"),
              foreignKey |-> IF fi = 0 THEN NoFk
                             ELSE [columnName |-> name,
                                   referencedTable |-> fkHeadAt(flags, fi).table,
                                   referencedColumn |-> fkHeadAt(flags, fi).column]]

RECURSIVE parseMldFrom(_, _, _, _, _)
\* parseMld: the two nested while loops over the lines; inTable says whether
\* line i is read by the inner loop (the columns of the last table)
parseMldFrom(lines, i, tables, errors, inTable) ==
    IF i > Len(lines)
    THEN [tables |-> tables, errors |-> errors]
    ELSE LET line == trim(lines[i]) IN
         IF ~inTable
         THEN (IF tableMatch(line) # ""
               THEN parseMldFrom(lines, i + 1,
                        tables \o <<[name |-> tableMatch(line), columns |-> <<>>]>>,
                        errors, TRUE)
               ELSE parseMldFrom(lines, i + 1, tables, errors, FALSE))
         ELSE IF line = "}" THEN parseMldFrom(lines, i + 1, tables, errors, FALSE)
         ELSE IF line = "" THEN parseMldFrom(lines, i + 1, tables, errors, TRUE)
         ELSE LET col == parseMldColumn(line) IN
              IF col # NoColumn
              THEN parseMldFrom(lines, i + 1,
                      [tables EXCEPT ![Len(tables)].columns = @ \o <<col>>],
                      errors, TRUE)
              ELSE IF includes(line, "}")
              THEN parseMldFrom(lines, i + 1, tables, errors, FALSE)
              ELSE parseMldFrom(lines, i + 1, tables,
                      errors \o <<"Colonne MLD invalide">>, TRUE)

\* parseMld on the lines of a text
parseMld(lines) == parseMldFrom(lines, 1, <<>>, <<>>, FALSE)

\* ------------------------------------------------------------------------
\* main.ts generateMpdText and parser/mpdParser.ts
\* ------------------------------------------------------------------------

\* the flag generateMpdText writes for one constraint (none for a CHECK
\* without expression)
ConstraintFlag(c) ==
    IF c.type = "NOT NULL" THEN <<"[NOT NULL]">>
    ELSE IF c.type = "UNIQUE" THEN <<"[UNIQUE]">>
    ELSE IF c.type = "CHECK" /\ c.expression # ""
         THEN <<"[CHECK(" \o c.expression \o ")]">>
    ELSE <<>>

RECURSIVE ConstraintFlags(_)
ConstraintFlags(cs) ==
    IF cs = <<>> THEN <<>> ELSE ConstraintFlag(Head(cs)) \o ConstraintFlags(Tail(cs))

\* the [FK -> ...] flag of a physical column
MpdFkFlag(fk) ==
    "[FK -> " \o fk.referencedTable \o "." \o fk.referencedColumn
    \o (IF fk.onDelete # "" THEN " ON DELETE " \o fk.onDelete ELSE "")
    \o (IF fk.onUpdate # "" THEN " ON UPDATE " \o fk.onUpdate ELSE "")
    \o "]"

\* the line generateMpdText writes for one column
MpdColumnLine(col) ==
    LET flags == (IF col.isPrimaryKey THEN <<"[PK]">> ELSE <<>>)
                 \o ConstraintFlags(col.constraints)
                 \o (IF col.foreignKey # NoMpdFk THEN <<MpdFkFlag(col.foreignKey)>>
                     ELSE <<>>)
    IN  "    " \o col.name \o " " \o col.sqlType
        \o (IF flags # <<>> THEN " " \o joinFlags(flags) ELSE "")

RECURSIVE MpdTextLines(_)
MpdTextLines(tables) ==
    IF tables = <<>> THEN <<>>
    ELSE <<"TABLE " \o Head(tables).name \o " {">>
         \o [i \in 1..Len(Head(tables).columns) |->
                MpdColumnLine(Head(tables).columns[i])]
         \o <<"}", "">>
         \o MpdTextLines(Tail(tables))

\* generateMpdText: the text, as its lines
generateMpdText(tables) == trimLines(MpdTextLines(tables))

ReferentialActions == {"CASCADE", "SET NULL", "SET DEFAULT", "RESTRICT", "NO ACTION"}

\* parseReferentialAction ("" is undefined)
parseReferentialAction(value) ==
    IF value = "" THEN ""
    ELSE LET upper == trim(toUpperCase(value)) IN
         IF upper \in ReferentialActions THEN upper ELSE ""

\* /\s+ON\s+<kw>\s+/ at index p: the index after it, or 0
onKeywordAt(s, p, kw) ==
    LET a == RunEnd(s, p, SpaceChars)
        b == RunEnd(s, a + 2, SpaceChars)
        c == RunEnd(s, b + Len(kw), SpaceChars)
    IN  IF a > p /\ LitAt(s, a, "ON") /\ b > a + 2 /\ LitAt(s, b, kw)
           /\ c > b + Len(kw)
        THEN c ELSE 0

\* the ways (\w+(?:\s+\w+)?) can match at index q, the index after the ON
\* keyword group (0: the keyword is not there), in the order the regular
\* expression tries them: two words, one word, and last the whole optional
\* group absent, which leaves the match at p
wordOptions(s, p, q) ==
    LET w1  == RunEnd(s, q, WordChars)
        sp  == RunEnd(s, w1, SpaceChars)
        w2  == RunEnd(s, sp, WordChars)
        two == IF q > 0 /\ w1 > q /\ sp > w1 /\ w2 > sp
               THEN <<[next |-> w2, value |-> SubSeq(s, q, w2 - 1)]>> ELSE <<>>
        one == IF q > 0 /\ w1 > q
               THEN <<[next |-> w1, value |-> SubSeq(s, q, w1 - 1)]>> ELSE <<>>
    IN  two \o one \o <<[next |-> p, value |-> ""]>>

\* (?:\s+ON\s+<kw>\s+(\w+(?:\s+\w+)?))? at index p: the ways the group can
\* match, each with the index after it and the captured text
actionOptions(s, p, kw) == wordOptions(s, p, onKeywordAt(s, p, kw))

NoFkMatch == [found |-> FALSE, table |-> "", column |-> "", del |-> "", upd |-> ""]

RECURSIVE fkTail(_, _, _, _)
\* the first way, in the order tried, to match the two optional ON groups
\* and the closing bracket after the referenced column
fkTail(s, h, dOpts, uOpts) ==
    IF dOpts = <<>> THEN NoFkMatch
    ELSE IF uOpts = <<>>
    THEN (IF Len(dOpts) = 1 THEN NoFkMatch
          ELSE fkTail(s, h, Tail(dOpts), actionOptions(s, dOpts[2].next, "UPDATE")))
    ELSE IF LitAt(s, uOpts[1].next, "]")
    THEN [found |-> TRUE, table |-> h.table, column |-> h.column,
          del |-> dOpts[1].value, upd |-> uOpts[1].value]
    ELSE fkTail(s, h, dOpts, Tail(uOpts))

\* the rest of the physical FK regular expression after the ON DELETE group
fkAfterDelete(s, h, dOpts) ==
    fkTail(s, h, dOpts, actionOptions(s, dOpts[1].next, "UPDATE"))

\* the rest of the physical FK regular expression after table.column
fkAfterHead(s, h) ==
    IF h.next = 0 THEN NoFkMatch
    ELSE fkAfterDelete(s, h, actionOptions(s, h.next, "DELETE"))

\* the physical FK regular expression anchored at index i
mpdFkAt(s, i) == fkAfterHead(s, fkHeadAt(s, i))

\* the leftmost of the matches found at each index
leftmostMatch(matches) ==
    LET i == FirstIndex({k \in 1..Len(matches) : matches[k].found}) IN
    IF i = 0 THEN NoFkMatch ELSE matches[i]

\* flagString.match(<FK regex>): the leftmost match
mpdFkMatch(flags) == leftmostMatch([k \in 1..Len(flags) |-> mpdFkAt(flags, k)])

\* /\[NOT\s*NULL\]/i somewhere in the flags
hasNotNull(flags) ==
    \E i \in 1..Len(flags) :
        /\ LitAt(flags, i, "[NOT")
        /\ LitAt(flags, RunEnd(flags, i + 4, SpaceChars), "NULL]")

RECURSIVE untilParen(_, _)
\* the index of the first ')' at or after i (Len + 1 when there is none)
untilParen(s, i) ==
    IF i <= Len(s) /\ charAt(s, i) # ")" THEN untilParen(s, i + 1) ELSE i

\* /\[CHECK\(([^)]+)\)\]/i: the expression of the leftmost match, or ""
checkMatch(flags) ==
    LET ok(i) == /\ LitAt(flags, i, "[CHECK(")
                 /\ untilParen(flags, i + 7) > i + 7
                 /\ LitAt(flags, untilParen(flags, i + 7), ")]")
        i == FirstIndex({k \in 1..Len(flags) : ok(k)})
    IN  IF i = 0 THEN "" ELSE SubSeq(flags, i + 7, untilParen(flags, i + 7) - 1)

\* the index after \w+(?:\(\d+(?:,\d+)?\))? starting at a (a itself: no match)
sqlTypeEnd(s, a) ==
    LET b  == RunEnd(s, a, WordChars)
        d1 == RunEnd(s, b + 1, DigitChars)
        d2 == IF LitAt(s, d1, ",") /\ RunEnd(s, d1 + 1, DigitChars) > d1 + 1
              THEN RunEnd(s, d1 + 1, DigitChars) ELSE d1
    IN  IF b > a /\ LitAt(s, b, "(") /\ d1 > b + 1 /\ LitAt(s, d2, ")")
        THEN d2 + 1 ELSE b

NoMpdColumn == [name |-> "", sqlType |-> "", isPrimaryKey |-> FALSE,
                constraints |-> <<>>, foreignKey |-> NoMpdFk]

\* the foreignKey of a parsed column, from the match of the FK flag
matchedForeignKey(name, fk) ==
    IF ~fk.found THEN NoMpdFk
    ELSE [columnName |-> name,
          referencedTable |-> fk.table,
          referencedColumn |-> fk.column,
          onDelete |-> parseReferentialAction(fk.del),
          onUpdate |-> parseReferentialAction(fk.upd)]

\* the CHECK constraint of a parsed column, from the matched expression
matchedCheck(chk) ==
    IF chk # "" THEN <<[type |-> "CHECK", expression |-> chk]>> ELSE <<>>

\* the column parseMpdColumn builds from the three groups of its line match
matchedColumn(name, sqlType, flags) ==
    [name |-> name,
     sqlType |-> sqlType,
     isPrimaryKey |-> \E i \in 1..Len(flags) : LitAt(flags, i, "[PK]"),
     constraints |->
         (IF hasNotNull(flags) THEN <<NotNull>> ELSE <<>>)
         \o (IF \E i \in 1..Len(flags) : LitAt(flags, i, "[UNIQUE]")
             THEN <<Unique>> ELSE <<>>)
         \o matchedCheck(checkMatch(flags)),
     foreignKey |-> matchedForeignKey(name, mpdFkMatch(flags))]

\* parseMpdColumn: the column of a line, or NoMpdColumn (null, with an error)
parseMpdColumn(line) ==
    LET cleaned == cleanLine(line)
        e  == RunEnd(cleaned, 1, WordChars)
        a  == RunEnd(cleaned, e, SpaceChars)
        t  == sqlTypeEnd(cleaned, a)
    IN  IF e = 1 \/ a = e \/ t = a THEN NoMpdColumn
        ELSE matchedColumn(SubSeq(cleaned, 1, e - 1), SubSeq(cleaned, a, t - 1),
                 SubSeq(cleaned, RunEnd(cleaned, t, SpaceChars), Len(cleaned)))

RECURSIVE parseMpdFrom(_, _, _, _, _)
\* parseMpd: the two nested while loops over the lines; inTable says whether
\* line i is read by the inner loop (the columns of the last table)
parseMpdFrom(lines, i, tables, errors, inTable) ==
    IF i > Len(lines)
    THEN [tables |-> tables, errors |-> errors]
    ELSE LET line == trim(lines[i]) IN
         IF ~inTable
         THEN (IF tableMatch(line) # ""
               THEN parseMpdFrom(lines, i + 1,
                        tables \o <<[name |-> tableMatch(line), columns |-> <<>>]>>,
                        errors, TRUE)
               ELSE parseMpdFrom(lines, i + 1, tables, errors, FALSE))
         ELSE IF startsWith(line, "}")
         THEN parseMpdFrom(lines, i + 1, tables, errors, FALSE)
         ELSE IF line = "" THEN parseMpdFrom(lines, i + 1, tables, errors, TRUE)
         ELSE LET col == parseMpdColumn(line) IN
              IF col # NoMpdColumn
              THEN parseMpdFrom(lines, i + 1,
                      [tables EXCEPT ![Len(tables)].columns = @ \o <<col>>],
                      errors, TRUE)
              ELSE parseMpdFrom(lines, i + 1, tables,
                      errors \o <<"Colonne MPD invalide">>, TRUE)

\* parseMpd on the lines of a text
parseMpd(lines) == parseMpdFrom(lines, 1, <<>>, <<>>, FALSE)

\* ------------------------------------------------------------------------
\* sql/sqlGenerator.ts topologicalSort, and validation/validator.ts
\* ------------------------------------------------------------------------

\* tableMap.has(name)
TableMapHas(tables, name) == \E i \in 1..Len(tables) : tables[i].name = name

\* tableMap.get(name): the map is filled in table order, the last table of a
\* name wins
TableMapGet(tables, name) ==
    LET S == {i \in 1..Len(tables) : tables[i].name = name} IN
    tables[CHOOSE i \in S : \A j \in S : j <= i]

RECURSIVE TableMapKeys(_, _)
\* tableMap.keys(): each name once, in the order of its first table
TableMapKeys(tables, seen) ==
    IF tables = <<>> THEN <<>>
    ELSE IF Head(tables).name \in seen THEN TableMapKeys(Tail(tables), seen)
    ELSE <<Head(tables).name>>
         \o TableMapKeys(Tail(tables), seen \cup {Head(tables).name})

\* a faulty deps.get(name), which keeps the references of a table to itself
DepsWithSelf(tables, name) ==
    {ref \in {tables[i].name : i \in 1..Len(tables)} :
        \E i \in 1..Len(tables) :
            /\ tables[i].name = name
            /\ \E c \in 1..Len(tables[i].columns) :
                  /\ tables[i].columns[c].foreignKey # NoMpdFk
                  /\ tables[i].columns[c].foreignKey.referencedTable = ref}

\* deps.get(name): the other tables of the model that the tables of this
\* name reference
Deps(tables, name) ==
    {ref \in {tables[i].name : i \in 1..Len(tables)} :
        /\ ref # name
        /\ \E i \in 1..Len(tables) :
              /\ tables[i].name = name
              /\ \E c \in 1..Len(tables[i].columns) :
                    /\ tables[i].columns[c].foreignKey # NoMpdFk
                    /\ tables[i].columns[c].foreignKey.referencedTable = ref}

\* a faulty ready list, which takes every remaining table whatever it
\* references
ReadyUnchecked(tables, remaining, visited) == remaining

\* the names of `remaining` whose dependencies are all visited, in order
Ready(tables, remaining, visited) ==
    SelectSeq(remaining, LAMBDA n : Deps(tables, n) \subseteq visited)

\* validateMld / validateMpd: the foreign keys to a table the model lacks,
\* each reported at level 'error'
DanglingFkErrors(tables, none) ==
    LET cells == FlattenColumns(tables) IN
    SelectSeq(cells, LAMBDA c :
        /\ c.col.foreignKey # none
        /\ ~TableMapHas(tables, c.col.foreignKey.referencedTable))

\* ------------------------------------------------------------------------
\* The validator (validateMcd, validateMld, validateMpd, detectCycles)
\* ------------------------------------------------------------------------

\* a ValidationMessage
Message(level, message) == [level |-> level, message |-> message]

RECURSIVE Concat(_)
\* the messages pushed by nested loops, in push order
Concat(seqs) == IF seqs = <<>> THEN <<>> ELSE Head(seqs) \o Concat(Tail(seqs))

\* validateMcd: every entity has an identifier
MissingIdentifiers(model) ==
    Concat([e \in 1..Len(model.entities) |->
        IF \E k \in 1..Len(model.entities[e].attributes) :
                model.entities[e].attributes[k].isPrimaryKey
        THEN <<>>
        ELSE <<Message("error", "Entité \"" \o model.entities[e].name
                                \o "\" : aucun identifiant [PK] défini.")>>])

\* validateMcd: usedEntities
UsedEntities(model) ==
    UNION { {model.relations[i].participants[k].entityName :
                k \in 1..Len(model.relations[i].participants)} :
            i \in 1..Len(model.relations) }
    \cup {model.inheritances[i].parentEntity : i \in 1..Len(model.inheritances)}
    \cup UNION { {model.inheritances[i].childEntities[k] :
                    k \in 1..Len(model.inheritances[i].childEntities)} :
                 i \in 1..Len(model.inheritances) }

\* validateMcd: the entities no relation and no inheritance names
OrphanEntities(model) ==
    Concat([e \in 1..Len(model.entities) |->
        IF model.entities[e].name \in UsedEntities(model) THEN <<>>
        ELSE <<Message("warning", "Entité orpheline : \"" \o model.entities[e].name
                                  \o "\" n'apparaît dans aucune relation.")>>])

\* validateMcd: entityNames
EntityNames(model) == {model.entities[e].name : e \in 1..Len(model.entities)}

\* validateMcd: the participants of one relation that name no entity
UndefinedParticipants(model, rel) ==
    Concat([k \in 1..Len(rel.participants) |->
        IF rel.participants[k].entityName \in EntityNames(model) THEN <<>>
        ELSE <<Message("error", "Relation \"" \o rel.name \o "\" : entité \""
                                \o rel.participants[k].entityName \o "\" non définie.")>>])

\* validateMcd: the parent and the children of one inheritance that name no
\* entity
UndefinedGeneralisation(model, inh) ==
    (IF inh.parentEntity \in EntityNames(model) THEN <<>>
     ELSE <<Message("error", "Héritage \"" \o inh.name \o "\" : entité parent \""
                             \o inh.parentEntity \o "\" non définie.")>>)
    \o Concat([k \in 1..Len(inh.childEntities) |->
        IF inh.childEntities[k] \in EntityNames(model) THEN <<>>
        ELSE <<Message("error", "Héritage \"" \o inh.name \o "\" : entité enfant \""
                                \o inh.childEntities[k] \o "\" non définie.")>>])

\* validateMcd: the relations with fewer than two participants
TooFewParticipants(model) ==
    Concat([i \in 1..Len(model.relations) |->
        IF Len(model.relations[i].participants) < 2
        THEN <<Message("error", "Relation \"" \o model.relations[i].name
                                \o "\" : doit avoir au moins 2 participants.")>>
        ELSE <<>>])

\* validateMcd
validateMcd(model) ==
    MissingIdentifiers(model)
    \o OrphanEntities(model)
    \o Concat([i \in 1..Len(model.relations) |->
                  UndefinedParticipants(model, model.relations[i])])
    \o Concat([i \in 1..Len(model.inheritances) |->
                  UndefinedGeneralisation(model, model.inheritances[i])])
    \o TooFewParticipants(model)

\* validateMld / validateMpd: the message of a foreign key to a table the
\* model lacks
DanglingFkMessage(tableName, col) ==
    Message("error", "Table \"" \o tableName \o "\", colonne \"" \o col.name
                     \o "\" : FK vers table inexistante \""
                     \o col.foreignKey.referencedTable \o "\".")

\* validateMld / validateMpd: the loop over the columns of one table
DanglingFkMessages(tables, table, none) ==
    Concat([i \in 1..Len(table.columns) |->
        IF /\ table.columns[i].foreignKey # none
           /\ ~TableMapHas(tables, table.columns[i].foreignKey.referencedTable)
        THEN <<DanglingFkMessage(table.name, table.columns[i])>>
        ELSE <<>>])

\* validateMld: "PK manquante"
MissingPrimaryKey(table) ==
    IF \E i \in 1..Len(table.columns) : table.columns[i].isPrimaryKey THEN <<>>
    ELSE <<Message("warning", "Table \"" \o table.name
                              \o "\" : aucune clé primaire définie.")>>

\* detectCycles: adj.get(name), the referenced tables of every table of that
\* name in column order ([] for a name the model lacks)
Adjacent(tables, name) ==
    Concat([t \in 1..Len(tables) |->
        IF tables[t].name # name THEN <<>>
        ELSE LET fks == SelectSeq(tables[t].columns, LAMBDA c : c.foreignKey # NoFk)
             IN  [i \in 1..Len(fks) |-> fks[i].foreignKey.referencedTable]])

\* path.indexOf(name), counted from 1 (0: absent)
IndexOf(path, name) == FirstIndex({i \in 1..Len(path) : path[i] = name})

\* detectCycles: the traversal state before the first dfs
NoTraversal == [visited |-> {}, inStack |-> {}, path |-> <<>>, cycles |-> <<>>]

RECURSIVE dfs(_, _, _)
RECURSIVE dfsNeighbors(_, _, _, _)
\* dfs(node) without path.pop() and inStack.delete(node)
dfsNoPop(tables, node, st) ==
    dfsNeighbors(tables, Adjacent(tables, node), 1,
                 [st EXCEPT !.visited = @ \cup {node}, !.inStack = @ \cup {node},
                            !.path = Append(@, node)])

\* detectCycles: dfs(node)
dfs(tables, node, st) ==
    LET entered == [st EXCEPT !.visited = @ \cup {node},
                              !.inStack = @ \cup {node},
                              !.path = Append(@, node)]
        left    == dfsNeighbors(tables, Adjacent(tables, node), 1, entered)
    IN  [left EXCEPT !.path = SubSeq(@, 1, Len(@) - 1),
                     !.inStack = @ \ {node}]

\* detectCycles: for (const neighbor of neighbors), from the i-th on
dfsNeighbors(tables, neighbors, i, st) ==
    IF i > Len(neighbors) THEN st
    ELSE dfsNeighbors(tables, neighbors, i + 1,
            IF neighbors[i] \notin st.visited THEN dfs(tables, neighbors[i], st)
            ELSE IF neighbors[i] \in st.inStack /\ IndexOf(st.path, neighbors[i]) > 0
            THEN [st EXCEPT !.cycles = Append(@,
                    SubSeq(st.path, IndexOf(st.path, neighbors[i]), Len(st.path))
                    \o <<neighbors[i]>>)]
            ELSE st)

RECURSIVE dfsTables(_, _, _)
\* detectCycles: for (const table of model.tables), from the i-th on
dfsTables(tables, i, st) ==
    IF i > Len(tables) THEN st
    ELSE dfsTables(tables, i + 1,
            IF tables[i].name \notin st.visited THEN dfs(tables, tables[i].name, st)
            ELSE st)

\* detectCycles
detectCycles(tables) == dfsTables(tables, 1, NoTraversal).cycles

RECURSIVE join(_, _)
\* Array.prototype.join
join(parts, sep) ==
    IF parts = <<>> THEN ""
    ELSE IF Len(parts) = 1 THEN parts[1]
    ELSE parts[1] \o sep \o join(Tail(parts), sep)

\* validateMld: the message of one cycle
CycleMessage(cycle) ==
    Message("warning", "Cycle de références FK détecté : " \o join(cycle, " → ") \o ".")

\* validateMld
validateMld(tables) ==
    Concat([t \in 1..Len(tables) |->
               MissingPrimaryKey(tables[t]) \o DanglingFkMessages(tables, tables[t], NoFk)])
    \o [i \in 1..Len(detectCycles(tables)) |-> CycleMessage(detectCycles(tables)[i])]

\* validateMpd
validateMpd(tables) ==
    Concat([t \in 1..Len(tables) |-> DanglingFkMessages(tables, tables[t], NoMpdFk)])

\* ------------------------------------------------------------------------
\* parser/mcdParser.ts: extractBlocks and the item splitter
\*
\* A source is the sequence of its lines (source.split('\n')).  The body of
\* a block is kept as the sequence of the lines the code joins with '\n':
\* every reader of a body splits it on '\n' again, trims each line and skips
\* the empty ones, so body.trim() changes nothing they see.
\* ------------------------------------------------------------------------

\* String.prototype.indexOf of one character, counted from 1 (0: absent)
indexOf(s, ch) == FirstIndex({i \in 1..Len(s) : charAt(s, i) = ch})

\* /^(\w+)\s+(\w+)\s*(.*?)\s*\{?\s*$/ on a trimmed line.  The lazy group
\* stops before a final '{' and the blanks in front of it; when the line
\* does not end with '{' it runs to the end of the line.
headerMatch(line) ==
    LET a    == RunEnd(line, 1, WordChars)
        b    == RunEnd(line, a, SpaceChars)
        c    == RunEnd(line, b, WordChars)
        d    == RunEnd(line, c, SpaceChars)
        rest == SubSeq(line, d, Len(line))
    IN  [ok      |-> a > 1 /\ b > a /\ c > b,
         keyword |-> SubSeq(line, 1, a - 1),
         name    |-> SubSeq(line, b, c - 1),
         extra   |-> IF rest # "" /\ charAt(rest, Len(rest)) = "{"
                     THEN SubSeq(rest, 1, RunStart(rest, Len(rest) - 1, SpaceChars))
                     ELSE rest]

\* extra.replace('{', '').trim(): the first brace removed
cleanExtra(extra) ==
    LET k == indexOf(extra, "{") IN
    trim(IF k = 0 THEN extra ELSE SubSeq(extra, 1, k - 1) \o SubSeq(extra, k + 1, Len(extra)))

RECURSIVE depthAfter(_, _, _)
\* for (const ch of l): the depth after the characters of l from the k-th
\* on, the scan stopping when the depth reaches 0
depthAfter(l, k, depth) ==
    IF k > Len(l) \/ depth = 0 THEN depth
    ELSE depthAfter(l, k + 1,
            IF charAt(l, k) = "{" THEN depth + 1
            ELSE IF charAt(l, k) = "}" THEN depth - 1 ELSE depth)

RECURSIVE collectBody(_, _, _, _)
\* while (i < lines.length && depth > 0): the body lines and the index of
\* the line after the block
collectBody(lines, i, depth, body) ==
    IF i > Len(lines) \/ depth = 0 THEN [body |-> body, next |-> i]
    ELSE LET after == depthAfter(lines[i], 1, depth) IN
         collectBody(lines, i + 1, after,
            body \o <<IF after > 0 THEN lines[i]
                      ELSE SubSeq(lines[i], 1, indexOf(lines[i], "}") - 1)>>)

RECURSIVE braceLine(_, _)
\* while (i < lines.length && !lines[i].trim().startsWith('{')) i++
braceLine(lines, i) ==
    IF i > Len(lines) \/ startsWith(trim(lines[i]), "{") THEN i
    ELSE braceLine(lines, i + 1)

\* one turn of the loop of extractBlocks on a header line: the block pushed
\* and the index of the next line read
blockAt(lines, i, h) ==
    LET line       == trim(lines[i])
        afterBrace == trim(SubSeq(line, indexOf(line, "{") + 1, Len(line)))
        inline     == collectBody(lines, i + 1, 1,
                                  IF afterBrace # "" THEN <<afterBrace>> ELSE <<>>)
        j          == braceLine(lines, i + 1)
        below      == IF j > Len(lines) THEN [body |-> <<>>, next |-> j]
                      ELSE collectBody(lines, j + 1, 1, <<>>)
        block(extra, body) ==
            [keyword |-> h.keyword, name |-> h.name, extra |-> extra, body |-> body]
    IN  IF includes(line, "{")
        THEN IF endsWith(afterBrace, "}")
             THEN [block |-> block(h.extra,
                                   <<trim(SubSeq(afterBrace, 1, Len(afterBrace) - 1))>>),
                   next |-> i + 1]
             ELSE [block |-> block(cleanExtra(h.extra), inline.body), next |-> inline.next]
        ELSE [block |-> block(cleanExtra(h.extra), below.body), next |-> below.next]

RECURSIVE extractFrom(_, _, _)
\* while (i < lines.length) of extractBlocks
extractFrom(lines, i, blocks) ==
    IF i > Len(lines) THEN blocks
    ELSE LET line == trim(lines[i]) IN
         IF line = "" \/ startsWith(line, "//") \/ startsWith(line, "#")
            \/ ~headerMatch(line).ok
         THEN extractFrom(lines, i + 1, blocks)
         ELSE extractFrom(lines, blockAt(lines, i, headerMatch(line)).next,
                          Append(blocks, blockAt(lines, i, headerMatch(line)).block))

\* extractBlocks
extractBlocks(lines) == extractFrom(lines, 1, <<>>)

RECURSIVE splitFrom(_, _, _, _, _)
\* splitOutsideParens: for (const ch of text), from the k-th character on
splitFrom(text, k, depth, current, parts) ==
    IF k > Len(text)
    THEN IF trim(current) # "" THEN Append(parts, trim(current)) ELSE parts
    ELSE LET ch == charAt(text, k) IN
         IF ch = "(" \/ ch = "["
         THEN splitFrom(text, k + 1, depth + 1, current \o ch, parts)
         ELSE IF ch = ")" \/ ch = "]"
         THEN splitFrom(text, k + 1, depth - 1, current \o ch, parts)
         ELSE IF ch = "," /\ depth = 0
         THEN splitFrom(text, k + 1, depth, "",
                        IF trim(current) # "" THEN Append(parts, trim(current)) ELSE parts)
         ELSE splitFrom(text, k + 1, depth, current \o ch, parts)

\* splitOutsideParens
splitOutsideParens(text) == splitFrom(text, 1, 0, "", <<>>)

\* normalizeBodyItems: the items of the lines of a body
normalizeBodyItems(body) ==
    Concat([l \in 1..Len(body) |->
        IF trim(body[l]) = "" THEN <<>>
        ELSE SelectSeq([p \in 1..Len(splitOutsideParens(trim(body[l]))) |->
                           cleanLine(splitOutsideParens(trim(body[l]))[p])],
                       LAMBDA item : item # "")])

\* ------------------------------------------------------------------------
\* parser/mcdParser.ts: the four kinds of block and parseMcd
\* ------------------------------------------------------------------------

\* parseAttribute returning null
NoAttribute == [name |-> "", isPrimaryKey |-> FALSE, isDerived |-> FALSE]

\* parseAttribute: /^(\w+)\s*(\[.*\])?\s*$/ on an item
parseAttribute(text) ==
    LET a     == RunEnd(text, 1, WordChars)
        b     == RunEnd(text, a, SpaceChars)
        e     == RunStart(text, Len(text), SpaceChars)
        plain == b > Len(text)
        flags == IF ~plain /\ charAt(text, b) = "[" /\ e > b /\ charAt(text, e) = "]"
                 THEN SubSeq(text, b, e) ELSE ""
    IN  IF a > 1 /\ (plain \/ flags # "")
        THEN [name |-> SubSeq(text, 1, a - 1),
              isPrimaryKey |-> includes(flags, "PK"),
              isDerived |-> includes(flags, "DERIVED")]
        ELSE NoAttribute

\* the attributes parseAttribute reads from the items, the nulls skipped
parseAttributes(items) ==
    SelectSeq([i \in 1..Len(items) |-> parseAttribute(items[i])],
              LAMBDA attr : attr # NoAttribute)

\* parseEntityBlock: the entity pushed and the errors
parseEntityBlock(block, result) ==
    LET attributes == parseAttributes(normalizeBodyItems(block.body)) IN
    [result EXCEPT
        !.model.entities = Append(@, [name |-> block.name, attributes |-> attributes]),
        !.errors = IF \E i \in 1..Len(attributes) : attributes[i].isPrimaryKey THEN @
                   ELSE Append(@, "Entité \"" \o block.name
                                  \o "\" n'a pas d'identifiant [PK].")]

\* /^(\w+)\s*\(\s*([\d],[n\d])\s*\)$/ on an item
participantMatch(item) ==
    LET a == RunEnd(item, 1, WordChars)
        b == RunEnd(item, a, SpaceChars)
        c == RunEnd(item, b + 1, SpaceChars)
        d == RunEnd(item, c + 3, SpaceChars)
        ok == /\ a > 1
              /\ LitAt(item, b, "(")
              /\ c + 2 <= Len(item)
              /\ charAt(item, c) \in DigitChars
              /\ charAt(item, c + 1) = ","
              /\ charAt(item, c + 2) \in DigitChars \cup {"n"}
              /\ d = Len(item)
              /\ charAt(item, d) = ")"
    IN  IF ok THEN [ok |-> TRUE, entityName |-> SubSeq(item, 1, a - 1),
                    cardinality |-> SubSeq(item, c, c + 2)]
        ELSE [ok |-> FALSE, entityName |-> "", cardinality |-> ""]

\* isValidCardinality
isValidCardinality(c) == c \in {"0,1", "1,1", "0,n", "1,n"}

RECURSIVE relationItems(_, _, _, _)
\* parseRelationBlock: for (const item of items)
relationItems(items, name, relation, errors) ==
    IF items = <<>> THEN [relation |-> relation, errors |-> errors]
    ELSE LET m    == participantMatch(Head(items))
             attr == parseAttribute(Head(items))
         IN  IF m.ok /\ ~isValidCardinality(m.cardinality)
             THEN relationItems(Tail(items), name, relation,
                    Append(errors, "Cardinalité invalide \"" \o m.cardinality
                                   \o "\" pour l'entité \"" \o m.entityName
                                   \o "\" dans la relation \"" \o name \o "\"."))
             ELSE IF m.ok
             THEN relationItems(Tail(items), name,
                    [relation EXCEPT !.participants =
                        Append(@, [entityName |-> m.entityName,
                                   cardinality |-> m.cardinality])],
                    errors)
             ELSE IF attr # NoAttribute
             THEN relationItems(Tail(items), name,
                    [relation EXCEPT !.attributes = Append(@, attr)], errors)
             ELSE relationItems(Tail(items), name, relation, errors)

\* ${relation.participants.length} of a relation with fewer than two
\* participants
countText(n) == charAt("01", n + 1)

\* parseRelationBlock
parseRelationBlock(block, result) ==
    LET r == relationItems(normalizeBodyItems(block.body), block.name,
                           [name |-> block.name, participants |-> <<>>,
                            attributes |-> <<>>], result.errors)
    IN  [result EXCEPT
            !.model.relations = Append(@, r.relation),
            !.errors = IF Len(r.relation.participants) < 2
                       THEN Append(r.errors, "La relation \"" \o block.name
                                \o "\" doit avoir au moins 2 participants (trouvé: "
                                \o countText(Len(r.relation.participants)) \o ").")
                       ELSE r.errors]

\* /^KEYWORD\s+(\w+)$/i: the word, or "" when the text does not match
keywordWord(text, keyword) ==
    LET a == RunEnd(text, Len(keyword) + 1, SpaceChars)
        b == RunEnd(text, a, WordChars)
    IN  IF LitAt(text, 1, keyword) /\ a > Len(keyword) + 1 /\ b > a /\ b = Len(text) + 1
        THEN SubSeq(text, a, b - 1) ELSE ""

\* /^CHILDREN\s+(.+)$/i: the group, or "" when the text does not match; the
\* group is the last blank when only blanks follow the keyword
childrenMatch(text) ==
    LET a == RunEnd(text, 9, SpaceChars) IN
    IF ~LitAt(text, 1, "CHILDREN") \/ a = 9 THEN ""
    ELSE IF a <= Len(text) THEN SubSeq(text, a, Len(text))
    ELSE IF a > 10 THEN charAt(text, Len(text)) ELSE ""

RECURSIVE splitComma(_, _, _)
\* text.split(',').map(s => s.trim()).filter(s => s.length > 0)
splitComma(text, k, current) ==
    IF k > Len(text) THEN (IF trim(current) # "" THEN <<trim(current)>> ELSE <<>>)
    ELSE IF charAt(text, k) = ","
    THEN (IF trim(current) # "" THEN <<trim(current)>> ELSE <<>>)
         \o splitComma(text, k + 1, "")
    ELSE splitComma(text, k + 1, current \o charAt(text, k))

RECURSIVE inheritanceLines(_, _, _)
\* parseInheritanceBlock: for (const line of lines)
inheritanceLines(lines, inheritance, errors) ==
    IF lines = <<>> THEN [inheritance |-> inheritance, errors |-> errors]
    ELSE LET t       == trim(Head(lines))
             trimmed == IF t # "" /\ charAt(t, Len(t)) = "," THEN SubSeq(t, 1, Len(t) - 1)
                        ELSE t
             parent   == keywordWord(trimmed, "PARENT")
             children == childrenMatch(trimmed)
             strat    == keywordWord(trimmed, "STRATEGY")
         IN  IF trimmed = "" THEN inheritanceLines(Tail(lines), inheritance, errors)
             ELSE IF parent # ""
             THEN inheritanceLines(Tail(lines),
                    [inheritance EXCEPT !.parentEntity = parent], errors)
             ELSE IF children # ""
             THEN inheritanceLines(Tail(lines),
                    [inheritance EXCEPT !.childEntities = splitComma(children, 1, "")],
                    errors)
             ELSE IF strat # "" /\ strat \in Strategies
             THEN inheritanceLines(Tail(lines),
                    [inheritance EXCEPT !.strategy = strat], errors)
             ELSE IF strat # ""
             THEN inheritanceLines(Tail(lines), inheritance,
                    Append(errors, "Stratégie d'héritage inconnue : \"" \o strat \o "\"."))
             ELSE inheritanceLines(Tail(lines), inheritance, errors)

\* parseInheritanceBlock
parseInheritanceBlock(block, result) ==
    LET r == inheritanceLines(block.body,
                              [name |-> block.name, parentEntity |-> "",
                               childEntities |-> <<>>, strategy |-> ""],
                              result.errors)
        e1 == IF r.inheritance.parentEntity = ""
              THEN Append(r.errors, "Héritage \"" \o block.name \o "\" : PARENT non défini.")
              ELSE r.errors
    IN  [result EXCEPT
            !.model.inheritances = Append(@, r.inheritance),
            !.errors = IF r.inheritance.childEntities = <<>>
                       THEN Append(e1, "Héritage \"" \o block.name
                                       \o "\" : aucun CHILDREN défini.")
                       ELSE e1]

\* parseAssociativeBlock
parseAssociativeBlock(block, result) ==
    IF keywordWord(block.extra, "ON") = ""
    THEN [result EXCEPT !.errors = Append(@, "Entité associative \"" \o block.name
            \o "\" : mot-clé ON manquant (syntaxe: ASSOCIATIVE nom ON relation { ... }).")]
    ELSE [result EXCEPT !.model.associativeEntities = Append(@,
            [name |-> block.name, relationName |-> keywordWord(block.extra, "ON"),
             attributes |-> parseAttributes(normalizeBodyItems(block.body))])]

RECURSIVE parseBlocks(_, _)
\* parseMcd: for (const block of blocks)
parseBlocks(blocks, result) ==
    IF blocks = <<>> THEN result
    ELSE LET block   == Head(blocks)
             keyword == toUpperCase(block.keyword)
         IN  parseBlocks(Tail(blocks),
                IF keyword = "ENTITY" THEN parseEntityBlock(block, result)
                ELSE IF keyword = "RELATION" THEN parseRelationBlock(block, result)
                ELSE IF keyword = "INHERITANCE" THEN parseInheritanceBlock(block, result)
                ELSE IF keyword = "ASSOCIATIVE" THEN parseAssociativeBlock(block, result)
                ELSE [result EXCEPT !.errors =
                        Append(@, "Mot-clé inconnu : \"" \o block.keyword \o "\"")])

\* parseMcd: the warnings, one per entity no relation or inheritance names
orphanWarnings(model) ==
    Concat([i \in 1..Len(model.entities) |->
        IF model.entities[i].name \in UsedEntities(model) THEN <<>>
        ELSE <<"Entité orpheline détectée : \"" \o model.entities[i].name
               \o "\" n'apparaît dans aucune relation.">>])

\* parseMcd: the result returned from the model and the errors of the blocks
parseResult(r) ==
    [model |-> r.model, errors |-> r.errors, warnings |-> orphanWarnings(r.model)]

\* parseMcd: the model, the errors and the warnings
parseMcd(lines) ==
    parseResult(parseBlocks(extractBlocks(lines), [model |-> NoMcd, errors |-> <<>>]))

\* ------------------------------------------------------------------------
\* The state machine: a session that converts a model stage by stage
\* ------------------------------------------------------------------------

VARIABLES
    pc,          \* the stage reached
    mcd,         \* the conceptual model (parsed merise-mcd block)
    settings,    \* inheritanceStrategy, sqlDialect, defaultVarcharLength
    mld,         \* tables of the logical model returned by convertMcdToMld
    mldText,     \* lines written by generateMldText
    mldParsed,   \* result of parseMld on mldText
    mpd,         \* tables of the physical model returned by convertMldToMpd
    mpdText,     \* lines written by generateMpdText
    mpdParsed,   \* result of parseMpd on mpdText
    sorted,      \* topologicalSort: tables emitted so far
    visited,     \* topologicalSort: names emitted by a complete round
    remaining,   \* topologicalSort: names not yet emitted, insertion order
    messages,    \* the ValidationMessage[] a validator returned
    written,     \* the blocks an author writes: keyword, name, extra, items
    mcdText,     \* the lines of the merise-mcd block written
    mcdParsed,   \* result of parseMcd on mcdText
    opened,      \* the code blocks of the active file when a command starts
    doc,         \* the code blocks of the active file (editor content)
    notice,      \* the Notice a command shows
    again        \* the model a second call of a converter returns

vars == <<pc, mcd, settings, mld, mldText, mldParsed, mpd, mpdText, mpdParsed,
          sorted, visited, remaining, messages, written, mcdText, mcdParsed,
          opened, doc, notice, again>>

\* what the conversions and the sort of a session leave alone
outside == <<messages, written, mcdText, mcdParsed, opened, doc, notice, again>>

\* parseMcd not called yet
NoMcdParse == [model |-> NoMcd, errors |-> <<>>, warnings |-> <<>>]

NoParse == [tables |-> <<>>, errors |-> <<>>]

\* convertMcdToMld(model, settings.inheritanceStrategy)
ConvertMcdToMld ==
    /\ pc = "mcd"
    /\ mld' = convertMcdToMld(mcd, settings.inheritanceStrategy)
    /\ pc' = "mld"
    /\ UNCHANGED <<mcd, settings, mldText, mldParsed, mpd, mpdText, mpdParsed,
                   sorted, visited, remaining, outside>>

\* generateMldText(mldModel)
GenerateMldText ==
    /\ pc = "mld"
    /\ mldText' = generateMldText(mld)
    /\ pc' = "mldText"
    /\ UNCHANGED <<mcd, settings, mld, mldParsed, mpd, mpdText, mpdParsed,
                   sorted, visited, remaining, outside>>

\* parseMld(mldBlock)
ParseMld ==
    /\ pc = "mldText"
    /\ mldParsed' = parseMld(mldText)
    /\ pc' = "mldParsed"
    /\ UNCHANGED <<mcd, settings, mld, mldText, mpd, mpdText, mpdParsed,
                   sorted, visited, remaining, outside>>

\* convertMldToMpd(model, settings.sqlDialect, settings.defaultVarcharLength)
ConvertMldToMpd ==
    /\ pc = "mldModel"
    /\ mpd' = convertMldToMpd(mld, settings.sqlDialect, settings.defaultVarcharLength)
    /\ pc' = "mpd"
    /\ UNCHANGED <<mcd, settings, mld, mldText, mldParsed, mpdText, mpdParsed,
                   sorted, visited, remaining, outside>>

\* generateMpdText(mpdModel)
GenerateMpdText ==
    /\ pc = "mpd"
    /\ mpdText' = generateMpdText(mpd)
    /\ pc' = "mpdText"
    /\ UNCHANGED <<mcd, settings, mld, mldText, mldParsed, mpd, mpdParsed,
                   sorted, visited, remaining, outside>>

\* parseMpd(mpdBlock)
ParseMpd ==
    /\ pc = "mpdText"
    /\ mpdParsed' = parseMpd(mpdText)
    /\ pc' = "mpdParsed"
    /\ UNCHANGED <<mcd, settings, mld, mldText, mldParsed, mpd, mpdText,
                   sorted, visited, remaining, outside>>

\* generateSql -> topologicalSort(model.tables): the maps are built
SortStart ==
    /\ pc = "mpdModel"
    /\ sorted' = <<>>
    /\ visited' = {}
    /\ remaining' = TableMapKeys(mpdParsed.tables, {})
    /\ pc' = "sorting"
    /\ UNCHANGED <<mcd, settings, mld, mldText, mldParsed, mpd, mpdText, mpdParsed, outside>>

\* one iteration of while (remaining.size > 0)
SortRound ==
    /\ pc = "sorting"
    /\ remaining # <<>>
    /\ LET ready == Ready(mpdParsed.tables, remaining, visited) IN
       IF ready = <<>>
       THEN /\ sorted' = sorted \o [i \in 1..Len(remaining) |->
                            TableMapGet(mpdParsed.tables, remaining[i])]
            /\ pc' = "sorted"
            /\ UNCHANGED <<visited, remaining>>
       ELSE /\ sorted' = sorted \o [i \in 1..Len(ready) |->
                            TableMapGet(mpdParsed.tables, ready[i])]
            /\ visited' = visited \cup {ready[i] : i \in 1..Len(ready)}
            /\ remaining' = SelectSeq(remaining,
                                LAMBDA n : \A i \in 1..Len(ready) : ready[i] # n)
            /\ pc' = "sorting"
    /\ UNCHANGED <<mcd, settings, mld, mldText, mldParsed, mpd, mpdText, mpdParsed, outside>>

\* the loop ends with remaining empty: return sorted
SortReturn ==
    /\ pc = "sorting"
    /\ remaining = <<>>
    /\ pc' = "sorted"
    /\ UNCHANGED <<mcd, settings, mld, mldText, mldParsed, mpd, mpdText, mpdParsed,
                   sorted, visited, remaining, outside>>

\* validateMcd(model)
ValidateMcd ==
    /\ pc = "validateMcd"
    /\ messages' = validateMcd(mcd)
    /\ pc' = "validatedMcd"
    /\ UNCHANGED <<mcd, settings, mld, mldText, mldParsed, mpd, mpdText, mpdParsed,
                   sorted, visited, remaining, written, mcdText, mcdParsed,
                   opened, doc, notice, again>>

\* validateMld(model)
ValidateMld ==
    /\ pc = "validateMld"
    /\ messages' = validateMld(mld)
    /\ pc' = "validatedMld"
    /\ UNCHANGED <<mcd, settings, mld, mldText, mldParsed, mpd, mpdText, mpdParsed,
                   sorted, visited, remaining, written, mcdText, mcdParsed,
                   opened, doc, notice, again>>

\* validateMpd(model)
ValidateMpd ==
    /\ pc = "validateMpd"
    /\ messages' = validateMpd(mpd)
    /\ pc' = "validatedMpd"
    /\ UNCHANGED <<mcd, settings, mld, mldText, mldParsed, mpd, mpdText, mpdParsed,
                   sorted, visited, remaining, written, mcdText, mcdParsed,
                   opened, doc, notice, again>>

\* parseMcd(source)
ParseMcd ==
    /\ pc = "mcdText"
    /\ mcdParsed' = parseMcd(mcdText)
    /\ pc' = "mcdParsed"
    /\ UNCHANGED <<mcd, settings, mld, mldText, mldParsed, mpd, mpdText, mpdParsed,
                   sorted, visited, remaining, messages, written, mcdText,
                   opened, doc, notice, again>>

\* ------------------------------------------------------------------------
\* Inputs: conceptual models
\* ------------------------------------------------------------------------

Attr(n, pk, derived) == [name |-> n, isPrimaryKey |-> pk, isDerived |-> derived]

Entity(e, attrs) == [name |-> e, attributes |-> attrs]

Participant(e, c) == [entityName |-> e, cardinality |-> c]

Relation(n, ps, attrs) == [name |-> n, participants |-> ps, attributes |-> attrs]

Inheritance(n, parent, children, strategy) ==
    [name |-> n, parentEntity |-> parent, childEntities |-> children,
     strategy |-> strategy]

Associative(n, rel, attrs) == [name |-> n, relationName |-> rel, attributes |-> attrs]

Mcd(es, rs, is, as) ==
    [entities |-> es, relations |-> rs, inheritances |-> is,
     associativeEntities |-> as]

\* the usual identifier of an entity: id_<entity>
KeyOf(e) == "id_" \o toLowerCase(e)

\* an entity with its identifier alone
PlainEntity(e) == Entity(e, <<Attr(KeyOf(e), TRUE, FALSE)>>)

\* the attribute lists an entity is given: its identifier alone, under its
\* own name, a shared name or a name no type rule knows as a number; derived;
\* or followed by one more attribute (plain, derived, or named like the
\* foreign key a relation would add)
AttributeLists(e) ==
    { <<Attr(KeyOf(e), TRUE, FALSE)>>,
      <<Attr("id", TRUE, FALSE)>>,
      <<Attr("email", TRUE, FALSE)>>,
      <<Attr(KeyOf(e), TRUE, TRUE)>>,
      <<Attr(KeyOf(e), TRUE, FALSE), Attr("nom", FALSE, FALSE)>>,
      <<Attr(KeyOf(e), TRUE, FALSE), Attr("total", FALSE, TRUE)>>,
      <<Attr(KeyOf(e), TRUE, FALSE), Attr("id_b_r", FALSE, FALSE)>> }

\* the attribute lists of the second entity of a model
FewAttributeLists(e) ==
    { <<Attr(KeyOf(e), TRUE, FALSE)>>,
      <<Attr("id", TRUE, FALSE)>>,
      <<Attr("email", TRUE, FALSE)>>,
      <<Attr(KeyOf(e), TRUE, TRUE)>> }

\* entities A, B, C in declaration order: one of A and B has its identifier
\* alone, or both are identified by the same name
EntityLists ==
    { <<Entity("A", a), PlainEntity("B"), PlainEntity("C")>> : a \in AttributeLists("A") }
    \cup { <<PlainEntity("A"), Entity("B", b), PlainEntity("C")>> :
             b \in FewAttributeLists("B") }
    \cup { <<Entity("A", <<Attr(k, TRUE, FALSE)>>), Entity("B", <<Attr(k, TRUE, FALSE)>>),
             PlainEntity("C")>> : k \in {"id", "email"} }

\* the attributes a relation may carry, in order; a relation carries a
\* prefix of them
RelationAttributes == <<Attr("quantite", FALSE, FALSE), Attr("date_r", FALSE, FALSE)>>

MaxRelationAttributes == 1

RelationAttributeLists ==
    { SubSeq(RelationAttributes, 1, n) :
        n \in 0..(IF MaxRelationAttributes < Len(RelationAttributes)
                  THEN MaxRelationAttributes ELSE Len(RelationAttributes)) }

\* the binary relations of one name over one ordered pair of entities
BinaryRelations(n, e1, e2, cards, attrLists) ==
    { Relation(n, <<Participant(e1, c[1]), Participant(e2, c[2])>>, at) :
        c \in cards, at \in attrLists }

\* one pair of cardinalities per way handleBinaryRelation branches
SomeCardinalityPairs ==
    { <<"1,1", "0,n">>, <<"1,n", "0,1">>, <<"0,1", "1,1">>, <<"1,1", "1,1">>,
      <<"0,1", "0,1">>, <<"0,n", "1,n">> }

\* a ternary relation over A, B, C
TernaryRelation(n) ==
    Relation(n, <<Participant("A", "0,n"), Participant("B", "1,n"),
                  Participant("C", "0,n")>>, <<Attr("quantite", FALSE, FALSE)>>)

RelationNames == <<"r", "s", "t">>

\* the relations a model may declare in k-th place: the first links A and B,
\* with any cardinalities, or with attributes and one pair of cardinalities
\* per branch; the second links the same pair, another pair, an entity with
\* itself, or three entities; a later one is many-to-many or ternary
RelationsAt(k) ==
    IF k = 1
    THEN BinaryRelations(RelationNames[k], "A", "B", Cardinalities \X Cardinalities, {<<>>})
         \cup BinaryRelations(RelationNames[k], "A", "B", SomeCardinalityPairs,
                              RelationAttributeLists)
    ELSE IF k = 2
    THEN BinaryRelations(RelationNames[k], "A", "B", SomeCardinalityPairs, {<<>>})
         \cup BinaryRelations(RelationNames[k], "B", "C", SomeCardinalityPairs, {<<>>})
         \cup BinaryRelations(RelationNames[k], "A", "A", SomeCardinalityPairs, {<<>>})
         \cup {TernaryRelation(RelationNames[k])}
    ELSE BinaryRelations(RelationNames[k], "C", "A", {<<"0,n", "0,n">>, <<"1,1", "0,n">>},
                         {<<>>})
         \cup {TernaryRelation(RelationNames[k])}

MaxRelations == 2

RECURSIVE RelationListsOfLength(_)
RelationListsOfLength(n) ==
    IF n = 0 THEN {<<>>}
    ELSE { rs \o <<r>> : rs \in RelationListsOfLength(n - 1), r \in RelationsAt(n) }

\* the relation lists of a model: up to MaxRelations relations, the k-th
\* drawn from RelationsAt(k)
RelationLists ==
    UNION { RelationListsOfLength(n) :
              n \in 0..(IF MaxRelations < Len(RelationNames)
                        THEN MaxRelations ELSE Len(RelationNames)) }

\* family 1: entities and relations, no inheritance
RelationModels == { Mcd(es, rs, <<>>, <<>>) : es \in EntityLists, rs \in RelationLists }

\* family 2: an inheritance group, with at most one relation reaching into it
InheritanceEntityLists ==
    { <<Entity("A", a), Entity("B", b), Entity("C", c)>> :
        a \in { <<Attr("id_a", TRUE, FALSE)>>, <<Attr("id", TRUE, FALSE)>>,
                <<Attr("id_a", TRUE, FALSE), Attr("nom", FALSE, FALSE),
                  Attr("total", FALSE, TRUE)>> },
        b \in { <<Attr("id_b", TRUE, FALSE)>>, <<Attr("id", TRUE, FALSE)>>,
                <<Attr("id_b", TRUE, FALSE), Attr("nom", FALSE, FALSE)>> },
        c \in { <<Attr("id_c", TRUE, FALSE), Attr("prix", FALSE, FALSE)>> } }

InheritanceRelationLists ==
    {<<>>}
    \cup { <<r>> : r \in BinaryRelations("r", "C", "B", SomeCardinalityPairs, {<<>>})
                      \cup BinaryRelations("r", "C", "A", SomeCardinalityPairs, {<<>>})
                      \cup BinaryRelations("r", "B", "A", SomeCardinalityPairs, {<<>>}) }

\* the groups: A generalises B, or B and C; the strategy is the group's own
\* or left to the settings ("")
InheritanceLists ==
    { <<Inheritance("h", "A", ch, st)>> :
        ch \in { <<"B">>, <<"B", "C">> }, st \in Strategies \cup {""} }

InheritanceModels ==
    { Mcd(es, rs, is, <<>>) :
        es \in InheritanceEntityLists, rs \in InheritanceRelationLists,
        is \in InheritanceLists }

\* family 3: an associative entity over the relation r, over no relation, or
\* named like an entity
AssociativeLists ==
    { <<Associative(n, rel, at)>> :
        n \in {"X", "C"}, rel \in {"r", "zz"},
        at \in { <<>>, <<Attr("quantite", FALSE, FALSE), Attr("date_x", FALSE, FALSE)>>,
                 <<Attr("id_x", TRUE, FALSE)>> } }

AssociativeModels ==
    { Mcd(<<Entity("A", a), PlainEntity("B"), PlainEntity("C")>>, <<r>>, <<>>, as) :
        a \in { <<Attr("id_a", TRUE, FALSE)>>, <<Attr("id", TRUE, FALSE)>> },
        r \in RelationsAt(1), as \in AssociativeLists }

\* family 4: an inheritance group whose children share the name of a
\* non-key attribute, one of them holding a derived attribute
SharedInheritanceModels ==
    { Mcd(<<Entity("A", a),
            Entity("B", <<Attr("id_b", TRUE, FALSE), Attr("nom", FALSE, FALSE),
                          Attr("age", FALSE, TRUE)>>),
            Entity("C", <<Attr("id_c", TRUE, FALSE), Attr("prix", FALSE, FALSE),
                          Attr("nom", FALSE, FALSE)>>)>>,
          <<>>, is, <<>>) :
        a \in { <<Attr("id_a", TRUE, FALSE)>>,
                <<Attr("id_a", TRUE, FALSE), Attr("nom", FALSE, FALSE)>> },
        is \in InheritanceLists }

McdInputs ==
    RelationModels \cup InheritanceModels \cup AssociativeModels
    \cup SharedInheritanceModels

DefaultSettings ==
    [inheritanceStrategy |-> "table_per_class", sqlDialect |-> "mariadb",
     defaultVarcharLength |-> DefaultVarcharLength]

Init ==
    /\ pc = "mcd"
    /\ mcd \in McdInputs
    /\ settings \in { [DefaultSettings EXCEPT !.inheritanceStrategy = st] :
                        st \in IF \E i \in 1..Len(mcd.inheritances) :
                                     mcd.inheritances[i].strategy = ""
                               THEN Strategies
                               ELSE {DefaultSettings.inheritanceStrategy} }
    /\ mld = <<>>
    /\ mldText = <<>>
    /\ mldParsed = NoParse
    /\ mpd = <<>>
    /\ mpdText = <<>>
    /\ mpdParsed = NoParse
    /\ sorted = <<>>
    /\ visited = {}
    /\ remaining = <<>>
    /\ messages = <<>>
    /\ written = <<>>
    /\ mcdText = <<>>
    /\ mcdParsed = NoMcdParse
    /\ opened = <<>>
    /\ doc = <<>>
    /\ notice = ""
    /\ again = <<>>

Next == ConvertMcdToMld \/ GenerateMldText \/ ParseMld

Spec == Init /\ [][Next]_vars

\* ------------------------------------------------------------------------
\* Inputs: logical models (a merise-mld block as parseMld returns it)
\* ------------------------------------------------------------------------

MldColumn(n, pk, fk) == [name |-> n, isPrimaryKey |-> pk, foreignKey |-> fk]

MldFk(col, t, c) == [columnName |-> col, referencedTable |-> t, referencedColumn |-> c]

MldTable(n, cols) == [name |-> n, columns |-> cols]

\* the names the key of table A is given: two the type rules read as a
\* number whatever the column is, one they read as a number only on a
\* primary key, one they read as text
KeyNames == {"id_a", "ident", "id", "email"}

LogicalTableA(k) == MldTable("A", <<MldColumn(k, TRUE, NoFk)>>)

\* table B: alone, with a foreign key to A or to a table Z the model lacks,
\* or identified by A's key (a child table)
LogicalTablesB(k) ==
    { MldTable("B", <<MldColumn("id_b", TRUE, NoFk)>>),
      MldTable("B", <<MldColumn(k, TRUE, MldFk(k, "A", k))>>) }
    \cup { MldTable("B", <<MldColumn("id_b", TRUE, NoFk),
                          MldColumn(f, FALSE, MldFk(f, t, k))>>) :
             f \in {k, "email_a"}, t \in {"A", "Z"} }

\* a table whose last column references the last column of table `ref`, or
\* the key of A, or nothing
LogicalTablesOver(n, ref, k) ==
    LET last == ref.columns[Len(ref.columns)].name
        key  == MldColumn("id_" \o toLowerCase(n), TRUE, NoFk)
    IN  { MldTable(n, <<key>>),
          MldTable(n, <<key, MldColumn(last, FALSE, MldFk(last, ref.name, last))>>),
          MldTable(n, <<key, MldColumn(k, FALSE, MldFk(k, "A", k))>>) }

MaxTables == 3

Orders(n) ==
    { p \in [1..n -> 1..n] : \A i, j \in 1..n : p[i] = p[j] => i = j }

\* the tables A, B, C, D of a model: C is over B, D over C
TablePools ==
    UNION { UNION { UNION { { <<LogicalTableA(k), b, c, d>> :
                                d \in LogicalTablesOver("D", c, k) } :
                            c \in LogicalTablesOver("C", b, k) } :
                    b \in LogicalTablesB(k) } :
            k \in KeyNames }

\* the first n tables of a pool, in every order
LogicalModels ==
    UNION { { [i \in 1..n |-> pool[p[i]]] : p \in Orders(n), pool \in TablePools } :
            n \in 1..(IF MaxTables < 4 THEN MaxTables ELSE 4) }

InitMld ==
    /\ pc = "mldModel"
    /\ mcd = NoMcd
    /\ settings \in { [DefaultSettings EXCEPT !.sqlDialect = d] : d \in Dialects }
    /\ mld \in LogicalModels
    /\ mldText = <<>>
    /\ mldParsed = NoParse
    /\ mpd = <<>>
    /\ mpdText = <<>>
    /\ mpdParsed = NoParse
    /\ sorted = <<>>
    /\ visited = {}
    /\ remaining = <<>>
    /\ messages = <<>>
    /\ written = <<>>
    /\ mcdText = <<>>
    /\ mcdParsed = NoMcdParse
    /\ opened = <<>>
    /\ doc = <<>>
    /\ notice = ""
    /\ again = <<>>

NextMld == ConvertMldToMpd \/ GenerateMpdText \/ ParseMpd

SpecMld == InitMld /\ [][NextMld]_vars

\* ------------------------------------------------------------------------
\* Inputs: physical models (a merise-mpd block as parseMpd returns it)
\* ------------------------------------------------------------------------

\* the names of the tables of a model, by position
TableNames == <<"A", "B", "C", "D">>

\* the tables a foreign key may name, in column order; Z is in no model
RefNames == TableNames \o <<"Z">>

\* the foreign keys of a whole model
MaxFks == 3

MpdKeyColumn ==
    [name |-> "id", sqlType |-> "INT", isPrimaryKey |-> TRUE,
     constraints |-> <<NotNull>>, foreignKey |-> NoMpdFk]

MpdFkColumn(ref) ==
    [name |-> "id_" \o toLowerCase(ref), sqlType |-> "INT", isPrimaryKey |-> FALSE,
     constraints |-> <<NotNull>>,
     foreignKey |-> [columnName |-> "id_" \o toLowerCase(ref), referencedTable |-> ref,
                     referencedColumn |-> "id", onDelete |-> "CASCADE",
                     onUpdate |-> "CASCADE"]]

\* a table named n with one foreign key per name of refs
MpdTable(n, refs) ==
    LET rs == SelectSeq(RefNames, LAMBDA r : r \in refs) IN
    [name |-> n,
     columns |-> <<MpdKeyColumn>> \o [i \in 1..Len(rs) |-> MpdFkColumn(rs[i])]]

\* the foreign keys a model of n tables may hold: (position of the table,
\* referenced name), the name one of the n first names or Z
FkSlots(n) == (1..n) \X ({TableNames[i] : i \in 1..n} \cup {"Z"})

RECURSIVE FkSetsUpTo(_, _)
\* the sets of at most k foreign keys
FkSetsUpTo(slots, k) ==
    IF k = 0 THEN {{}}
    ELSE LET smaller == FkSetsUpTo(slots, k - 1) IN
         smaller \cup {S \cup {e} : S \in smaller, e \in slots}

\* the names of n tables by position: all different, or one table named
\* like an earlier one (a block that declares a table twice)
Namings(n) ==
    {[i \in 1..n |-> TableNames[i]]}
    \cup UNION { {[i \in 1..n |-> IF i = j THEN TableNames[k] ELSE TableNames[i]] :
                    k \in 1..(j - 1)} : j \in 2..n }

\* the model of n tables with the names nm and the foreign keys S
PhysicalModel(n, nm, S) ==
    [i \in 1..n |-> MpdTable(nm[i], {e[2] : e \in {x \in S : x[1] = i}})]

\* the chain A, B referencing A, C referencing B, in every order
ChainModels ==
    LET chain == <<MpdTable("A", {}), MpdTable("B", {"A"}), MpdTable("C", {"B"})>>
    IN  {[i \in 1..3 |-> chain[p[i]]] : p \in Orders(3)}

RECURSIVE PhysicalModelsUpTo(_)
\* the models of up to n tables holding up to MaxFks foreign keys between
\* them, to themselves and to the absent table
PhysicalModelsUpTo(n) ==
    IF n = 0 THEN {}
    ELSE PhysicalModelsUpTo(n - 1)
         \cup { PhysicalModel(n, nm, S) :
                  nm \in Namings(n), S \in FkSetsUpTo(FkSlots(n), MaxFks) }

\* up to MaxTables tables, and the chain in every order
PhysicalModels ==
    PhysicalModelsUpTo(IF MaxTables < Len(TableNames) THEN MaxTables
                       ELSE Len(TableNames))
    \cup ChainModels

InitMpd ==
    /\ pc = "mpdModel"
    /\ mcd = NoMcd
    /\ settings = DefaultSettings
    /\ mld = <<>>
    /\ mldText = <<>>
    /\ mldParsed = NoParse
    /\ mpd = <<>>
    /\ mpdText = <<>>
    /\ mpdParsed \in { [tables |-> ts, errors |-> <<>>] : ts \in PhysicalModels }
    /\ sorted = <<>>
    /\ visited = {}
    /\ remaining = <<>>
    /\ messages = <<>>
    /\ written = <<>>
    /\ mcdText = <<>>
    /\ mcdParsed = NoMcdParse
    /\ opened = <<>>
    /\ doc = <<>>
    /\ notice = ""
    /\ again = <<>>

NextMpd == SortStart \/ SortRound \/ SortReturn

SpecMpd == InitMpd /\ [][NextMpd]_vars

\* ------------------------------------------------------------------------
\* Inputs: the models handed to the validator
\* ------------------------------------------------------------------------

\* the attribute lists of an entity: none, an identifier, no identifier, two
\* identifiers
ValidatorAttributeLists(e) ==
    { <<>>, <<Attr(KeyOf(e), TRUE, FALSE)>>, <<Attr("nom", FALSE, FALSE)>>,
      <<Attr(KeyOf(e), TRUE, FALSE), Attr("code", TRUE, FALSE)>> }

\* entities A and B; no relation, a relation over them, over an entity the
\* model lacks, or with one participant; no inheritance, one over A and B,
\* or one over entities the model lacks
ValidatorMcds ==
    { Mcd(<<Entity("A", a), Entity("B", b)>>, rs, is, <<>>) :
        a \in ValidatorAttributeLists("A"), b \in ValidatorAttributeLists("B"),
        rs \in { <<>>,
                 <<Relation("r", <<Participant("A", "0,n"), Participant("B", "1,1")>>, <<>>)>>,
                 <<Relation("r", <<Participant("A", "0,n"), Participant("Z", "1,1")>>, <<>>)>>,
                 <<Relation("r", <<Participant("A", "0,n")>>, <<>>)>> },
        is \in { <<>>, <<Inheritance("h", "A", <<"B">>, "")>>,
                 <<Inheritance("h", "Z", <<"B", "Y">>, "")>> } }

\* the logical table a physical table was built from
LogicalTableOf(table) ==
    [name |-> table.name,
     columns |-> [i \in 1..Len(table.columns) |->
         [name |-> table.columns[i].name,
          isPrimaryKey |-> table.columns[i].isPrimaryKey,
          foreignKey |-> IF table.columns[i].foreignKey = NoMpdFk THEN NoFk
                         ELSE MldFk(table.columns[i].foreignKey.columnName,
                                    table.columns[i].foreignKey.referencedTable,
                                    table.columns[i].foreignKey.referencedColumn)]]]

\* the model with no primary key in its k-th table
WithoutKey(tables, k) ==
    [tables EXCEPT ![k].columns = [i \in 1..Len(@) |-> [@[i] EXCEPT !.isPrimaryKey = FALSE]]]

\* the physical models handed to validateMpd: those handed to the sort, and
\* the chain with one table left without a primary key
ValidatorMpds ==
    PhysicalModels \cup { WithoutKey(m, k) : m \in ChainModels, k \in 1..3 }

\* the logical models handed to validateMld: the same tables
ValidatorMlds ==
    { [t \in 1..Len(m) |-> LogicalTableOf(m[t])] : m \in ValidatorMpds }

InitValidate ==
    /\ \/ /\ pc = "validateMcd"
          /\ mcd \in ValidatorMcds
          /\ mld = <<>>
          /\ mpd = <<>>
       \/ /\ pc = "validateMld"
          /\ mcd = NoMcd
          /\ mld \in ValidatorMlds
          /\ mpd = <<>>
       \/ /\ pc = "validateMpd"
          /\ mcd = NoMcd
          /\ mld = <<>>
          /\ mpd \in ValidatorMpds
    /\ settings = DefaultSettings
    /\ mldText = <<>>
    /\ mldParsed = NoParse
    /\ mpdText = <<>>
    /\ mpdParsed = NoParse
    /\ sorted = <<>>
    /\ visited = {}
    /\ remaining = <<>>
    /\ messages = <<>>
    /\ written = <<>>
    /\ mcdText = <<>>
    /\ mcdParsed = NoMcdParse
    /\ opened = <<>>
    /\ doc = <<>>
    /\ notice = ""
    /\ again = <<>>

NextValidate == ValidateMcd \/ ValidateMld \/ ValidateMpd

SpecValidate == InitValidate /\ [][NextValidate]_vars

\* ------------------------------------------------------------------------
\* Inputs: merise-mcd blocks as an author writes them (README, "Syntaxe")
\* ------------------------------------------------------------------------

\* a block as the author means it
Written(keyword, name, extra, items) ==
    [keyword |-> keyword, name |-> name, extra |-> extra, items |-> items]

\* KEYWORD name [extra]
HeaderOf(b) == b.keyword \o " " \o b.name \o (IF b.extra = "" THEN "" ELSE " " \o b.extra)

\* the three ways of writing a block: on a single line, with the opening
\* brace on the header line, with the opening brace on the next line
Forms == {"single", "header", "below"}

\* the lines of one block in one form
WriteBlock(b, form) ==
    IF form = "single"
    THEN <<HeaderOf(b) \o " { " \o join(b.items, ", ") \o " }">>
    ELSE (IF form = "header" THEN <<HeaderOf(b) \o " {">> ELSE <<HeaderOf(b), "{">>)
         \o [i \in 1..Len(b.items) |-> "    " \o b.items[i]]
         \o <<"}">>

\* the lines of a merise-mcd block, a blank line after each block
WriteMcd(blocks, form) ==
    Concat([i \in 1..Len(blocks) |-> WriteBlock(blocks[i], form) \o <<"">>])

\* the items of an entity
EntityItemLists ==
    { <<"id_a [PK]", "nom">>, <<"nom", "total [DERIVED]">>, <<"id_a [PK, DERIVED]">> }

\* the items of a relation: participants with and without blanks, with a
\* pair of digits that is no cardinality, with a pair the participant
\* pattern does not read, and an attribute
RelationItems ==
    <<"A (0,n)", "B (1,1)", "C( 1,n )", "B (2,n)", "C (n,n)", "A (0,N)", "quantite">>

\* the longest list of items of a relation
MaxItems == 3

RECURSIVE ItemListsOfLength(_)
ItemListsOfLength(n) ==
    IF n = 0 THEN {<<>>}
    ELSE { Append(l, RelationItems[k]) :
             l \in ItemListsOfLength(n - 1), k \in 1..Len(RelationItems) }

RECURSIVE ItemListsUpTo(_)
ItemListsUpTo(n) ==
    IF n = 0 THEN {} ELSE ItemListsUpTo(n - 1) \cup ItemListsOfLength(n)

\* the items of an inheritance
InheritanceItemLists ==
    { <<"PARENT A", "CHILDREN B, C">>,
      <<"PARENT A", "CHILDREN B", "STRATEGY single_table">>,
      <<"CHILDREN B", "STRATEGY joined">> }

\* the blocks of a source: one block of one of the four kinds, under an
\* upper-case or lower-case keyword, or of an unknown kind; or an entity
\* followed by a relation
WrittenBlocks ==
    { <<Written(k, "A", "", items)>> :
        k \in {"ENTITY", "entity", "TABLE"}, items \in EntityItemLists }
    \cup { <<Written("RELATION", "r", "", items)>> : items \in ItemListsUpTo(MaxItems) }
    \cup { <<Written("INHERITANCE", "h", "", items)>> : items \in InheritanceItemLists }
    \cup { <<Written("ASSOCIATIVE", "X", extra, items)>> :
             extra \in {"ON r", "on r", "", "OVER r"},
             items \in { <<"quantite">>, <<"id_x [PK]", "date_x">> } }
    \cup { <<Written("ENTITY", "A", "", e), Written("RELATION", "r", "", items)>> :
             e \in EntityItemLists, items \in ItemListsOfLength(2) }

InitParse ==
    /\ pc = "mcdText"
    /\ written \in WrittenBlocks
    /\ mcdText \in { WriteMcd(written, form) : form \in Forms }
    /\ mcdParsed = NoMcdParse
    /\ mcd = NoMcd
    /\ settings = DefaultSettings
    /\ mld = <<>>
    /\ mldText = <<>>
    /\ mldParsed = NoParse
    /\ mpd = <<>>
    /\ mpdText = <<>>
    /\ mpdParsed = NoParse
    /\ sorted = <<>>
    /\ visited = {}
    /\ remaining = <<>>
    /\ messages = <<>>
    /\ opened = <<>>
    /\ doc = <<>>
    /\ notice = ""
    /\ again = <<>>

NextParse == ParseMcd

SpecParse == InitParse /\ [][NextParse]_vars

\* ------------------------------------------------------------------------
\* main.ts: the conversion commands on the active document
\* ------------------------------------------------------------------------

\* The content of the editor is modelled by its fenced code blocks, in
\* order: the language written after the opening fence and the lines
\* between the fences.  The text around the blocks is never read and stays
\* where it is.
Block(language, lines) == [language |-> language, lines |-> lines]

\* the index of the first block the pattern ```<language>\s*\n...\n``` of
\* extractCodeBlock and insertAfterBlock matches (flag i), 0 if none
blockIndex(content, language) ==
    FirstIndex({i \in 1..Len(content) :
                  toLowerCase(content[i].language) = toLowerCase(language)})

\* a block content that is the empty string
EmptyText(lines) == lines = <<>> \/ lines = <<"">>

\* extractCodeBlock: the lines of the block; found is FALSE where the
\* caller's test !block holds (no match, or the empty string)
extractCodeBlock(content, language) ==
    LET i == blockIndex(content, language) IN
    IF i = 0 THEN [found |-> FALSE, lines |-> <<>>]
    ELSE [found |-> ~EmptyText(content[i].lines), lines |-> content[i].lines]

\* insertAfterBlock without the test of an existing block of newLang
insertAfterBlockAlways(content, afterLang, newLang, newContent) ==
    LET after == blockIndex(content, afterLang)
    IN IF after > 0
       THEN SubSeq(content, 1, after) \o <<Block(newLang, newContent)>>
            \o SubSeq(content, after + 1, Len(content))
       ELSE Append(content, Block(newLang, newContent))

\* insertAfterBlock
insertAfterBlock(content, afterLang, newLang, newContent) ==
    LET existing == blockIndex(content, newLang)
        after == blockIndex(content, afterLang)
    IN IF existing > 0
       THEN [content EXCEPT ![existing] = Block(newLang, newContent)]
       ELSE IF after > 0
       THEN SubSeq(content, 1, after) \o <<Block(newLang, newContent)>>
            \o SubSeq(content, after + 1, Len(content))
       ELSE Append(content, Block(newLang, newContent))

NoActiveFile == "Aucun fichier Markdown actif."

\* the notices of a conversion (without the check mark that opens them)
Converted == {"Conversion MCD → MLD effectuée !",
              "Conversion MLD → MPD effectuée !",
              "Conversion complète MCD → MLD → MPD effectuée !"}

\* the notice and the new content of commandConvertMcdToMld, from the block
\* extracted, the errors of parseMcd and the text of the model converted
convertMcdToMldCommand(content, mcdBlock, errors, mldLines) ==
    IF ~mcdBlock.found
    THEN [notice |-> "Aucun bloc merise-mcd trouvé dans le fichier.",
          content |-> content]
    ELSE IF Len(errors) > 0
    THEN [notice |-> "Erreurs dans le MCD :\n" \o join(errors, "\n"),
          content |-> content]
    ELSE [notice |-> "Conversion MCD → MLD effectuée !",
          content |-> insertAfterBlock(content, "merise-mcd", "merise-mld", mldLines)]

\* the notice and the new content of commandConvertMldToMpd, from the block
\* extracted, the errors of parseMld and the text of the model converted
convertMldToMpdCommand(content, mldBlock, errors, mpdLines) ==
    IF ~mldBlock.found
    THEN [notice |-> "Aucun bloc merise-mld trouvé dans le fichier.",
          content |-> content]
    ELSE IF Len(errors) > 0
    THEN [notice |-> "Erreurs dans le MLD :\n" \o join(errors, "\n"),
          content |-> content]
    ELSE [notice |-> "Conversion MLD → MPD effectuée !",
          content |-> insertAfterBlock(content, "merise-mld", "merise-mpd", mpdLines)]

\* the notice and the new content of commandConvertMcdToMpd, from the block
\* extracted, the errors of parseMcd and the texts of the models converted
convertMcdToMpdCommand(content, mcdBlock, errors, mldLines, mpdLines) ==
    IF ~mcdBlock.found
    THEN [notice |-> "Aucun bloc merise-mcd trouvé dans le fichier.",
          content |-> content]
    ELSE IF Len(errors) > 0
    THEN [notice |-> "Erreurs dans le MCD :\n" \o join(errors, "\n"),
          content |-> content]
    ELSE [notice |-> "Conversion complète MCD → MLD → MPD effectuée !",
          content |-> insertAfterBlock(
                          insertAfterBlock(content, "merise-mcd", "merise-mld", mldLines),
                          "merise-mld", "merise-mpd", mpdLines)]

\* the stage of a session after the command `name` has run a second time
Again(name) == name \o " again"

\* a command: without an active Markdown view it shows a notice and
\* returns; with one it sets the editor's value where it converts. A
\* session runs a command on the document opened, then the same command on
\* the document the first run left.
Command(name, outcome, view) ==
    /\ pc \in {"document", name}
    /\ pc' = IF pc = "document" THEN name ELSE Again(name)
    /\ opened' = doc
    /\ notice' = IF view THEN outcome.notice ELSE NoActiveFile
    /\ doc' = IF view THEN outcome.content ELSE doc
    /\ UNCHANGED <<mcd, settings, mld, mldText, mldParsed, mpd, mpdText, mpdParsed,
                   sorted, visited, remaining, messages, written, mcdText,
                   mcdParsed, again>>

\* the logical model a command converts from a parsed block (nothing where
\* the command has returned before)
mldModelOf(mcdBlock, parsed, s) ==
    IF mcdBlock.found /\ parsed.errors = <<>>
    THEN convertMcdToMld(parsed.model, s.inheritanceStrategy)
    ELSE <<>>

\* the physical model a command converts from a logical model
mpdModelOf(mldModel, s) == convertMldToMpd(mldModel, s.sqlDialect, s.defaultVarcharLength)

\* The constants of a handler are bound one after the other to their
\* values: the block, the result of the parser, the model converted, its
\* text.
CommandConvertMcdToMld ==
    \E mcdBlock \in {extractCodeBlock(doc, "merise-mcd")} :
    \E parsed \in {parseMcd(mcdBlock.lines)} :
    \E mldModel \in {mldModelOf(mcdBlock, parsed, settings)} :
    \E text \in {generateMldText(mldModel)} :
    \E view \in BOOLEAN :
        Command("commandConvertMcdToMld",
                convertMcdToMldCommand(doc, mcdBlock, parsed.errors, text), view)

CommandConvertMldToMpd ==
    \E mldBlock \in {extractCodeBlock(doc, "merise-mld")} :
    \E parsed \in {parseMld(mldBlock.lines)} :
    \E mpdModel \in {IF mldBlock.found /\ parsed.errors = <<>>
                      THEN mpdModelOf(parsed.tables, settings) ELSE <<>>} :
    \E text \in {generateMpdText(mpdModel)} :
    \E view \in BOOLEAN :
        Command("commandConvertMldToMpd",
                convertMldToMpdCommand(doc, mldBlock, parsed.errors, text), view)

CommandConvertMcdToMpd ==
    \E mcdBlock \in {extractCodeBlock(doc, "merise-mcd")} :
    \E parsed \in {parseMcd(mcdBlock.lines)} :
    \E mldModel \in {mldModelOf(mcdBlock, parsed, settings)} :
    \E mpdModel \in {mpdModelOf(mldModel, settings)} :
    \E text \in {<<generateMldText(mldModel), generateMpdText(mpdModel)>>} :
    \E view \in BOOLEAN :
        Command("commandConvertMcdToMpd",
                convertMcdToMpdCommand(doc, mcdBlock, parsed.errors, text[1], text[2]),
                view)

\* ------------------------------------------------------------------------
\* Inputs: documents
\* ------------------------------------------------------------------------

\* merise-mcd sources: two entities and a relation of A with a second item
\* (a participant that may be invalid or name the undefined entity C, or an
\* attribute), an entity without identifier, nothing
McdSources ==
    { WriteMcd(<<Written("ENTITY", "A", "", <<"id_a [PK]", "nom">>),
                 Written("ENTITY", "B", "", <<"id_b [PK]">>),
                 Written("RELATION", "r", "", <<"A (0,n)", RelationItems[k]>>)>>,
               "single") :
        k \in 1..Len(RelationItems) }
    \cup { WriteMcd(<<Written("ENTITY", "A", "", <<"nom">>)>>, "single"), <<"">> }

\* merise-mld sources: two tables, the second with a foreign key to the
\* first, to itself or to the missing table Z; a table without key; a line
\* that is no column
MldSources ==
    { generateMldText(<<MldTable("A", <<MldColumn("id_a", TRUE, NoFk)>>),
                        MldTable("B", <<MldColumn("id_b", TRUE, NoFk),
                                        MldColumn("ref", FALSE, MldFk("ref", t, "id_a"))>>)>>) :
        t \in {"A", "B", "Z"} }
    \cup { <<"TABLE A {", "    nom", "}">>,
           <<"TABLE A {", "    id_a [PK] [", "}">> }

\* the documents: the source block alone, under a fence in another case,
\* before or after a block of the target language
Documents ==
    { <<Block(l, s)>> : l \in {"merise-mcd", "Merise-MCD"}, s \in McdSources }
    \cup { <<Block("merise-mcd", s), Block("merise-mld", <<"TABLE Old {", "}">>)>> :
             s \in McdSources }
    \cup { <<Block("merise-mpd", <<"TABLE Old {", "}">>), Block("merise-mcd", s)>> :
             s \in McdSources }
    \cup { <<Block("merise-mld", s)>> : s \in MldSources }
    \cup { <<Block("merise-mpd", <<"TABLE Old {", "}">>), Block("merise-mld", s),
             Block("sql", <<"SELECT 1;">>)>> : s \in MldSources }
    \cup { <<>> }

InitCommands ==
    /\ pc = "document"
    /\ opened \in Documents
    /\ doc = opened
    /\ settings \in { [DefaultSettings EXCEPT !.sqlDialect = d] :
                        d \in {"mariadb", "postgresql"} }
    /\ mcd = NoMcd
    /\ mld = <<>>
    /\ mldText = <<>>
    /\ mldParsed = NoParse
    /\ mpd = <<>>
    /\ mpdText = <<>>
    /\ mpdParsed = NoParse
    /\ sorted = <<>>
    /\ visited = {}
    /\ remaining = <<>>
    /\ messages = <<>>
    /\ written = <<>>
    /\ mcdText = <<>>
    /\ mcdParsed = NoMcdParse
    /\ notice = ""
    /\ again = <<>>

NextCommands == CommandConvertMcdToMld \/ CommandConvertMldToMpd \/ CommandConvertMcdToMpd

SpecCommands == InitCommands /\ [][NextCommands]_vars

\* ------------------------------------------------------------------------
\* The converters called on objects their caller holds
\* ------------------------------------------------------------------------

\* An object the caller holds carries its identity in the field ref.  The
\* converters build every table and every column with an object literal
\* (mcdToMld.ts 54-62, 95, 111, 240, 254, 283, 310, 321, 343, 399, 417;
\* mldToMpd.ts 83-86, 104-109); a literal is a record without ref, an object
\* passed through keeps its ref.
HeldAttributes(attributes, kind, i) ==
    [j \in 1..Len(attributes) |->
        [name |-> attributes[j].name, isPrimaryKey |-> attributes[j].isPrimaryKey,
         isDerived |-> attributes[j].isDerived, ref |-> <<kind, i, j>>]]

HeldParticipants(participants, i) ==
    [j \in 1..Len(participants) |->
        [entityName |-> participants[j].entityName,
         cardinality |-> participants[j].cardinality,
         ref |-> <<"participant", i, j>>]]

\* a conceptual model the caller holds
HeldMcd(m) ==
    [entities |-> [i \in 1..Len(m.entities) |->
        [name |-> m.entities[i].name,
         attributes |-> HeldAttributes(m.entities[i].attributes, "attribute", i),
         ref |-> <<"entity", i, 0>>]],
     relations |-> [i \in 1..Len(m.relations) |->
        [name |-> m.relations[i].name,
         participants |-> HeldParticipants(m.relations[i].participants, i),
         attributes |-> HeldAttributes(m.relations[i].attributes, "relation attribute", i),
         ref |-> <<"relation", i, 0>>]],
     inheritances |-> [i \in 1..Len(m.inheritances) |->
        [name |-> m.inheritances[i].name,
         parentEntity |-> m.inheritances[i].parentEntity,
         childEntities |-> m.inheritances[i].childEntities,
         strategy |-> m.inheritances[i].strategy,
         ref |-> <<"inheritance", i, 0>>]],
     associativeEntities |-> [i \in 1..Len(m.associativeEntities) |->
        [name |-> m.associativeEntities[i].name,
         relationName |-> m.associativeEntities[i].relationName,
         attributes |-> HeldAttributes(m.associativeEntities[i].attributes,
                                       "associative attribute", i),
         ref |-> <<"associative", i, 0>>]]]

\* a logical model the caller holds
HeldMld(tables) ==
    [t \in 1..Len(tables) |->
        [name |-> tables[t].name,
         columns |-> [i \in 1..Len(tables[t].columns) |->
            [name |-> tables[t].columns[i].name,
             isPrimaryKey |-> tables[t].columns[i].isPrimaryKey,
             foreignKey |-> tables[t].columns[i].foreignKey,
             ref |-> <<"column", t, i>>]],
         ref |-> <<"table", t, 0>>]]

\* a first call of convertMcdToMld.  The converter assigns no field of an
\* object reached from its parameter and calls no mutating method on one:
\* its writes go to mld.tables, to the columns of the tables in it, and to
\* its own maps.
CallConvertMcdToMld ==
    /\ pc = "heldMcd"
    /\ mld' = convertMcdToMld(mcd, settings.inheritanceStrategy)
    /\ pc' = "heldMcdConverted"
    /\ UNCHANGED <<mcd, settings, mldText, mldParsed, mpd, mpdText, mpdParsed,
                   sorted, visited, remaining, outside>>

\* a second call on the same model
CallConvertMcdToMldAgain ==
    /\ pc = "heldMcdConverted"
    /\ again' = convertMcdToMld(mcd, settings.inheritanceStrategy)
    /\ pc' = "heldMcdConvertedAgain"
    /\ UNCHANGED <<mcd, settings, mld, mldText, mldParsed, mpd, mpdText, mpdParsed,
                   sorted, visited, remaining, messages, written, mcdText,
                   mcdParsed, opened, doc, notice>>

\* a first call of convertMldToMpd (its writes go to mpd.tables, to the
\* columns and constraints of the new tables, and to resolvedTypes)
CallConvertMldToMpd ==
    /\ pc = "heldMld"
    /\ mpd' = convertMldToMpd(mld, settings.sqlDialect, settings.defaultVarcharLength)
    /\ pc' = "heldMldConverted"
    /\ UNCHANGED <<mcd, settings, mld, mldText, mldParsed, mpdText, mpdParsed,
                   sorted, visited, remaining, outside>>

\* a second call on the same model
CallConvertMldToMpdAgain ==
    /\ pc = "heldMldConverted"
    /\ again' = convertMldToMpd(mld, settings.sqlDialect, settings.defaultVarcharLength)
    /\ pc' = "heldMldConvertedAgain"
    /\ UNCHANGED <<mcd, settings, mld, mldText, mldParsed, mpd, mpdText, mpdParsed,
                   sorted, visited, remaining, messages, written, mcdText,
                   mcdParsed, opened, doc, notice>>

\* the conceptual models held: the inheritance groups and the associative
\* entities, under every strategy of the settings
HeldMcds == { HeldMcd(m) : m \in InheritanceModels \cup AssociativeModels }

HeldMlds == { HeldMld(tables) : tables \in LogicalModels }

InitHeld ==
    /\ \/ /\ pc = "heldMcd"
          /\ mcd \in HeldMcds
          /\ mld = <<>>
          /\ settings \in { [DefaultSettings EXCEPT !.inheritanceStrategy = st] :
                              st \in Strategies }
       \/ /\ pc = "heldMld"
          /\ mcd = NoMcd
          /\ mld \in HeldMlds
          /\ settings \in { [DefaultSettings EXCEPT !.sqlDialect = d] : d \in Dialects }
    /\ mldText = <<>>
    /\ mldParsed = NoParse
    /\ mpd = <<>>
    /\ mpdText = <<>>
    /\ mpdParsed = NoParse
    /\ sorted = <<>>
    /\ visited = {}
    /\ remaining = <<>>
    /\ messages = <<>>
    /\ written = <<>>
    /\ mcdText = <<>>
    /\ mcdParsed = NoMcdParse
    /\ opened = <<>>
    /\ doc = <<>>
    /\ notice = ""
    /\ again = <<>>

NextHeld ==
    \/ CallConvertMcdToMld
    \/ CallConvertMcdToMldAgain
    \/ CallConvertMldToMpd
    \/ CallConvertMldToMpdAgain

SpecHeld == InitHeld /\ [][NextHeld]_vars

\* ------------------------------------------------------------------------
\* Properties
\* ------------------------------------------------------------------------

\* the stages of a session at which the physical model has been built
MpdBuilt == pc \in {"mpd", "mpdText", "mpdParsed"}

\* the stages of a session at which the logical model has been built
MldBuilt == pc \in {"mld", "mldText", "mldParsed"}

\* the type a foreign key takes from a referenced column of type t
Propagated(t) == IF t = "SERIAL" THEN "INT" ELSE t

\* C1: in the physical model convertMldToMpd returns, every foreign-key
\* column whose referenced (table, column) exists in the model has the
\* sqlType of that referenced column, INT standing for SERIAL; whatever the
\* order of the tables, and also when the referenced column is a foreign key
C1_FkTypePropagated ==
    MpdBuilt =>
        \A t, u \in 1..Len(mpd) :
            \A c \in 1..Len(mpd[t].columns), d \in 1..Len(mpd[u].columns) :
                (/\ mpd[t].columns[c].foreignKey # NoMpdFk
                 /\ mpd[t].columns[c].foreignKey.referencedTable = mpd[u].name
                 /\ mpd[t].columns[c].foreignKey.referencedColumn = mpd[u].columns[d].name)
                => mpd[t].columns[c].sqlType = Propagated(mpd[u].columns[d].sqlType)

\* the names of the tables of a model
NamesOf(tables) == {tables[i].name : i \in 1..Len(tables)}

\* the tables of the model a table record references by foreign key, other
\* than itself
ReferencesOf(tables, table) ==
    {r \in NamesOf(tables) \ {table.name} :
        \E c \in 1..Len(table.columns) :
            /\ table.columns[c].foreignKey # NoMpdFk
            /\ table.columns[c].foreignKey.referencedTable = r}

\* the foreign-key graph on table names: the edges leaving n, with or
\* without the self-references
Edges(tables, n, withSelf) ==
    {r \in NamesOf(tables) :
        /\ withSelf \/ r # n
        /\ \E i \in 1..Len(tables) :
              /\ tables[i].name = n
              /\ \E c \in 1..Len(tables[i].columns) :
                    /\ tables[i].columns[c].foreignKey # NoMpdFk
                    /\ tables[i].columns[c].foreignKey.referencedTable = r}

RECURSIVE Closure(_, _, _, _)
\* the names reached from the set S in at most k more steps
Closure(tables, S, withSelf, k) ==
    IF k = 0 THEN S
    ELSE Closure(tables, S \cup UNION {Edges(tables, n, withSelf) : n \in S},
                 withSelf, k - 1)

\* the names reached from n in one step or more
ReachedFrom(tables, n, withSelf) ==
    Closure(tables, Edges(tables, n, withSelf), withSelf, Cardinality(NamesOf(tables)))

\* n lies on a directed foreign-key cycle
OnCycle(tables, n, withSelf) == n \in ReachedFrom(tables, n, withSelf)

\* n lies on a cycle between tables, or references, directly or through
\* other tables, a table that does
ReachesCycle(tables, n) ==
    \E m \in {n} \cup ReachedFrom(tables, n, FALSE) : OnCycle(tables, m, FALSE)

\* the graph without self-references and references to absent tables has no
\* cycle
Acyclic(tables) == \A n \in NamesOf(tables) : ~OnCycle(tables, n, FALSE)

\* every emitted table comes after the tables it references
ReferencedFirst(tables, out) ==
    \A j \in 1..Len(out) :
        \A r \in ReferencesOf(tables, out[j]) : \E i \in 1..(j - 1) : out[i].name = r

\* the model of tables A, B referencing A, C referencing B, in some order
IsChainABC(tables) ==
    /\ Len(tables) = 3
    /\ {tables[i] : i \in 1..3}
         = {MpdTable("A", {}), MpdTable("B", {"A"}), MpdTable("C", {"B"})}

\* C2: when the foreign-key graph (self-references and references to absent
\* tables ignored) has no cycle, topologicalSort emits every table after all
\* the tables it references, whatever the input order; with B referencing A
\* and C referencing B the output is A, B, C
C2_AcyclicReferencedFirst ==
    (pc = "sorted" /\ Acyclic(mpdParsed.tables)) =>
        /\ ReferencedFirst(mpdParsed.tables, sorted)
        /\ IsChainABC(mpdParsed.tables) =>
              [i \in 1..Len(sorted) |-> sorted[i].name] = <<"A", "B", "C">>

\* C2 witness: the chain given as C, B, A has been sorted into A, B, C
C2_Witness ==
    /\ pc = "sorted"
    /\ mpdParsed.tables = <<MpdTable("C", {"B"}), MpdTable("B", {"A"}), MpdTable("A", {})>>
    /\ sorted = <<MpdTable("A", {}), MpdTable("B", {"A"}), MpdTable("C", {"B"})>>

Occurrences(seq, table) == Cardinality({i \in 1..Len(seq) : seq[i] = table})

\* C4: the output of topologicalSort holds every table of the input exactly
\* once (one CREATE TABLE statement per table of the model), whatever the
\* foreign-key graph
C4_EveryTableOnce ==
    pc = "sorted" =>
        /\ Len(sorted) = Len(mpdParsed.tables)
        /\ \A i \in 1..Len(mpdParsed.tables) :
              Occurrences(sorted, mpdParsed.tables[i])
                = Occurrences(mpdParsed.tables, mpdParsed.tables[i])

\* the indexes of the primary-key attributes of an entity
KeyAttributes(entity) ==
    {k \in 1..Len(entity.attributes) : entity.attributes[k].isPrimaryKey}

\* a valid conceptual model: every entity has exactly one primary-key
\* attribute, every relation has at least two participants, every entity
\* named by a relation or an inheritance exists
ValidMcd(m) ==
    LET names == {m.entities[i].name : i \in 1..Len(m.entities)} IN
    /\ \A i \in 1..Len(m.entities) : Cardinality(KeyAttributes(m.entities[i])) = 1
    /\ \A i \in 1..Len(m.relations) :
          /\ Len(m.relations[i].participants) >= 2
          /\ \A k \in 1..Len(m.relations[i].participants) :
                m.relations[i].participants[k].entityName \in names
    /\ \A i \in 1..Len(m.inheritances) :
          /\ m.inheritances[i].parentEntity \in names
          /\ \A k \in 1..Len(m.inheritances[i].childEntities) :
                m.inheritances[i].childEntities[k] \in names

\* C5: for a valid conceptual model and any inheritance strategy, every
\* table of the logical model convertMcdToMld returns has at least one
\* primary-key column
C5_EveryTableHasPrimaryKey ==
    (MldBuilt /\ ValidMcd(mcd)) =>
        \A t \in 1..Len(mld) :
            \E c \in 1..Len(mld[t].columns) : mld[t].columns[c].isPrimaryKey

\* the maximum of a cardinality: "1" or "n"
MaxOf(cardinality) == SubSeq(cardinality, 3, 3)

\* a binary relation between two different entities that a foreign key
\* resolves: not many-to-many
ResolvedByForeignKey(rel) ==
    /\ Len(rel.participants) = 2
    /\ rel.participants[1].entityName # rel.participants[2].entityName
    /\ ~(MaxOf(rel.participants[1].cardinality) = "n"
         /\ MaxOf(rel.participants[2].cardinality) = "n")

PairOf(rel) == {rel.participants[1].entityName, rel.participants[2].entityName}

\* the foreign-key columns of the logical model that stand for the relation:
\* between its two entities, on the referenced primary key, named
\* <referenced primary key>_<relation name>
RoleColumns(tables, m, rel) ==
    {<<t, c>> \in UNION { {t} \X (1..Len(tables[t].columns)) : t \in 1..Len(tables) } :
        /\ tables[t].name \in PairOf(rel)
        /\ tables[t].columns[c].foreignKey # NoFk
        /\ tables[t].columns[c].foreignKey.referencedTable \in PairOf(rel) \ {tables[t].name}
        /\ tables[t].columns[c].foreignKey.referencedColumn
             = getPrimaryKey(EntityGet(m.entities,
                   tables[t].columns[c].foreignKey.referencedTable))
        /\ tables[t].columns[c].name
             = tables[t].columns[c].foreignKey.referencedColumn \o "_" \o rel.name}

\* C6: two distinct relations over the same pair of entities, each resolved
\* by a foreign key, give the logical model two foreign-key columns of
\* different names, one per relation, each named
\* <referenced primary key>_<relation name>: neither foreign key is lost
C6_TwoRelationsTwoForeignKeys ==
    MldBuilt =>
        \A i, j \in 1..Len(mcd.relations) :
            (/\ i # j
             /\ mcd.relations[i].name # mcd.relations[j].name
             /\ ResolvedByForeignKey(mcd.relations[i])
             /\ ResolvedByForeignKey(mcd.relations[j])
             /\ PairOf(mcd.relations[i]) = PairOf(mcd.relations[j]))
            => \E x \in RoleColumns(mld, mcd, mcd.relations[i]) :
                   \E y \in RoleColumns(mld, mcd, mcd.relations[j]) :
                       mld[x[1]].columns[x[2]].name # mld[y[1]].columns[y[2]].name

\* the relation is binary, one participant with maximum 1 and the other
\* with maximum n, between existing entities that each have a primary key
OneToMany(m, rel) ==
    /\ Len(rel.participants) = 2
    /\ {MaxOf(rel.participants[1].cardinality), MaxOf(rel.participants[2].cardinality)}
         = {"1", "n"}
    /\ \A k \in 1..2 :
          /\ EntityGet(m.entities, rel.participants[k].entityName) # NoEntity
          /\ getPrimaryKey(EntityGet(m.entities, rel.participants[k].entityName)) # ""

\* the participant of maximum 1, and the other one
OneSide(rel) ==
    IF MaxOf(rel.participants[1].cardinality) = "1"
    THEN rel.participants[1].entityName ELSE rel.participants[2].entityName

ManySide(rel) ==
    IF MaxOf(rel.participants[1].cardinality) = "1"
    THEN rel.participants[2].entityName ELSE rel.participants[1].entityName

\* the columns the "one" side's table must hold: its own, a foreign key to
\* the "many" side's primary key, the attributes of the relation
OneSideColumns(own, cols, m, rel) ==
    /\ Len(cols) = Len(own) + 1 + Len(rel.attributes)
    /\ SubSeq(cols, 1, Len(own)) = own
    /\ cols[Len(own) + 1].foreignKey
         = [columnName |-> cols[Len(own) + 1].name,
            referencedTable |-> ManySide(rel),
            referencedColumn |-> getPrimaryKey(EntityGet(m.entities, ManySide(rel)))]
    /\ \A k \in 1..Len(rel.attributes) :
          cols[Len(own) + 1 + k]
            = [name |-> rel.attributes[k].name, isPrimaryKey |-> FALSE,
               foreignKey |-> NoFk]

\* C7: for a one/many binary relation between existing entities that have a
\* primary key (here the only relation of a model without inheritance or
\* associative entity), convertMcdToMld adds to the "one" side's table a
\* foreign key to the "many" side's table and primary key, appends the
\* relation's attributes to that table, and changes no other table
C7_ForeignKeyOnOneSide ==
    (/\ MldBuilt
     /\ Len(mcd.relations) = 1
     /\ mcd.inheritances = <<>>
     /\ mcd.associativeEntities = <<>>
     /\ OneToMany(mcd, mcd.relations[1]))
    => /\ Len(mld) = Len(mcd.entities)
       /\ \A i \in 1..Len(mld) :
             /\ mld[i].name = mcd.entities[i].name
             /\ IF mld[i].name = OneSide(mcd.relations[1])
                THEN OneSideColumns(EntityTable(mcd.entities[i]).columns,
                                    mld[i].columns, mcd, mcd.relations[1])
                ELSE mld[i] = EntityTable(mcd.entities[i])

\* C8: writing the logical model convertMcdToMld returns with
\* generateMldText and reading the text with parseMld gives no error and the
\* same tables, each with the same columns, primary-key flags and
\* foreign-key descriptors
C8_MldRoundTrip ==
    pc = "mldParsed" => (mldParsed.errors = <<>> /\ mldParsed.tables = mld)

\* C8 witness: a model with a primary key and a role-named foreign key has
\* been written and read back
C8_Witness ==
    /\ pc = "mldParsed"
    /\ \E t \in 1..Len(mld) :
          /\ \E c \in 1..Len(mld[t].columns) : mld[t].columns[c].isPrimaryKey
          /\ \E c \in 1..Len(mld[t].columns) :
                /\ mld[t].columns[c].foreignKey # NoFk
                /\ mld[t].columns[c].name # mld[t].columns[c].foreignKey.referencedColumn
    /\ mldParsed.tables = mld

\* C9: writing the physical model convertMldToMpd returns with
\* generateMpdText and reading the text with parseMpd gives no error and an
\* equal model: per column the same name, sqlType, primary-key flag,
\* constraint list in the same order, and foreign key with onDelete and
\* onUpdate
C9_MpdRoundTrip ==
    pc = "mpdParsed" => (mpdParsed.errors = <<>> /\ mpdParsed.tables = mpd)

\* C10: for a valid conceptual model and any inheritance strategy, every
\* foreign key of the logical model references a table of that model:
\* validateMld reports no foreign key to a missing table
C10_ForeignKeysReferenceTables ==
    (MldBuilt /\ ValidMcd(mcd)) =>
        /\ \A t \in 1..Len(mld) : \A c \in 1..Len(mld[t].columns) :
              mld[t].columns[c].foreignKey # NoFk
              => \E u \in 1..Len(mld) :
                     mld[u].name = mld[t].columns[c].foreignKey.referencedTable
        /\ DanglingFkErrors(mld, NoFk) = <<>>

\* the attribute names of every entity are pairwise distinct
DistinctAttributeNames(m) ==
    \A e \in 1..Len(m.entities) :
        \A i, j \in 1..Len(m.entities[e].attributes) :
            m.entities[e].attributes[i].name = m.entities[e].attributes[j].name => i = j

\* the column names of a table are pairwise distinct
DistinctColumnNames(table) ==
    \A i, j \in 1..Len(table.columns) :
        table.columns[i].name = table.columns[j].name => i = j

\* C11: for a valid conceptual model whose entities each have pairwise
\* distinct attribute names, every table of the logical model convertMcdToMld
\* returns has pairwise distinct column names, associative tables of
\* many-to-many, n-ary and reflexive relations included
C11_DistinctColumnNames ==
    (MldBuilt /\ ValidMcd(mcd) /\ DistinctAttributeNames(mcd)) =>
        \A t \in 1..Len(mld) : DistinctColumnNames(mld[t])

\* a binary relation whose two participants both have maximum 1
OneToOne(rel) ==
    /\ Len(rel.participants) = 2
    /\ MaxOf(rel.participants[1].cardinality) = "1"
    /\ MaxOf(rel.participants[2].cardinality) = "1"

\* the participant (1 or 2) the foreign key of a one-to-one relation is
\* placed on: the one that is (1,1), the first when both are; 0 when none is
MandatoryParticipant(rel) ==
    IF rel.participants[1].cardinality = "1,1" THEN 1
    ELSE IF rel.participants[2].cardinality = "1,1" THEN 2
    ELSE 0

\* the table named src holds a foreign key to the primary key of entity tgt
HoldsForeignKeyTo(tables, m, src, tgt) ==
    \E t \in 1..Len(tables) :
        /\ tables[t].name = src
        /\ \E c \in 1..Len(tables[t].columns) :
              /\ tables[t].columns[c].foreignKey # NoFk
              /\ tables[t].columns[c].foreignKey.referencedTable = tgt
              /\ tables[t].columns[c].foreignKey.referencedColumn
                   = getPrimaryKey(EntityGet(m.entities, tgt))

\* the table named n holds no foreign key
HoldsNoForeignKey(tables, n) ==
    \A t \in 1..Len(tables) :
        tables[t].name = n
        => \A c \in 1..Len(tables[t].columns) : tables[t].columns[c].foreignKey = NoFk

\* the model with the two participants of its only relation declared in the
\* other order
SwapParticipants(m) ==
    [m EXCEPT !.relations[1].participants =
        <<m.relations[1].participants[2], m.relations[1].participants[1]>>]

\* C12: for a binary relation whose two participants both have maximum 1
\* (in a model without inheritance or associative entity), the foreign key
\* is placed on the table of the participant that is (1,1), referencing the
\* other participant's primary key; when both are (1,1) it is placed on the
\* first-declared participant's table, so that declaring the two (1,1)
\* participants in the other order moves the foreign key to the other table
C12_OneToOneOnMandatorySide ==
    (MldBuilt /\ mcd.inheritances = <<>> /\ mcd.associativeEntities = <<>>) =>
        /\ \A i \in 1..Len(mcd.relations) :
              (OneToOne(mcd.relations[i]) /\ MandatoryParticipant(mcd.relations[i]) # 0)
              => LET rel == mcd.relations[i]
                     o   == MandatoryParticipant(rel)
                 IN  HoldsForeignKeyTo(mld, mcd, rel.participants[o].entityName,
                                       rel.participants[3 - o].entityName)
        /\ (/\ Len(mcd.relations) = 1
            /\ OneToOne(mcd.relations[1])
            /\ mcd.relations[1].participants[1].cardinality = "1,1"
            /\ mcd.relations[1].participants[2].cardinality = "1,1")
           => LET first  == mcd.relations[1].participants[1].entityName
                  second == mcd.relations[1].participants[2].entityName
                  swapped == convertMcdToMld(SwapParticipants(mcd),
                                             settings.inheritanceStrategy)
              IN  /\ HoldsForeignKeyTo(mld, mcd, first, second)
                  /\ HoldsNoForeignKey(mld, second)
                  /\ HoldsForeignKeyTo(swapped, mcd, second, first)
                  /\ HoldsNoForeignKey(swapped, first)


\* a relation resolved by a table of its own: more than two participants,
\* or two participants that both have max = n
OwnTableRelation(rel) ==
    \/ Len(rel.participants) > 2
    \/ /\ Len(rel.participants) = 2
       /\ MaxOf(rel.participants[1].cardinality) = "n"
       /\ MaxOf(rel.participants[2].cardinality) = "n"

\* every participant of the relation is an entity with a primary key, and
\* the relation shares its name with no entity and no other relation
WellNamedRelation(m, i) ==
    /\ \A k \in 1..Len(m.relations[i].participants) :
          /\ \E e \in 1..Len(m.entities) :
                m.entities[e].name = m.relations[i].participants[k].entityName
          /\ getPrimaryKey(EntityGet(m.entities,
                                     m.relations[i].participants[k].entityName)) # ""
    /\ \A e \in 1..Len(m.entities) : m.entities[e].name # m.relations[i].name
    /\ \A j \in 1..Len(m.relations) : m.relations[j].name = m.relations[i].name => j = i

\* the attributes some associative entity over the relation adds to its table
PromotedBy(m, rel) ==
    {a \in 1..Len(m.associativeEntities) : m.associativeEntities[a].relationName = rel.name}

\* the columns of the table follow the recipe of the relation: one primary
\* key and foreign key per participant, in order, then the relation's
\* attributes as plain columns, and nothing else unless an associative
\* entity is declared over the relation
FollowsRecipe(table, m, rel) ==
    LET n == Len(rel.participants)
        a == Len(rel.attributes)
    IN  /\ Len(table.columns) >= n + a
        /\ PromotedBy(m, rel) = {} => Len(table.columns) = n + a
        /\ \A k \in 1..n :
              /\ table.columns[k].isPrimaryKey
              /\ table.columns[k].foreignKey # NoFk
              /\ table.columns[k].foreignKey.columnName = table.columns[k].name
              /\ table.columns[k].foreignKey.referencedTable = rel.participants[k].entityName
              /\ table.columns[k].foreignKey.referencedColumn =
                    getPrimaryKey(EntityGet(m.entities, rel.participants[k].entityName))
        /\ \A k \in 1..a :
              /\ table.columns[n + k].name = rel.attributes[k].name
              /\ ~table.columns[n + k].isPrimaryKey
              /\ table.columns[n + k].foreignKey = NoFk

\* C13: every relation with more than two participants, or with two
\* participants that both have max = n, gives the logical model exactly one
\* table named after the relation, holding one column per participant that
\* is primary key and foreign key to the participant's table and primary
\* key, then the relation's attributes as plain columns; and when a model
\* has only such relations, the tables of its entities hold the entities'
\* own attributes and nothing more
C13_OwnTableRecipe ==
    MldBuilt =>
        /\ \A i \in 1..Len(mcd.relations) :
              (OwnTableRelation(mcd.relations[i]) /\ WellNamedRelation(mcd, i)) =>
                  /\ Cardinality({t \in 1..Len(mld) :
                                    mld[t].name = mcd.relations[i].name}) = 1
                  /\ \A t \in 1..Len(mld) :
                        mld[t].name = mcd.relations[i].name =>
                            FollowsRecipe(mld[t], mcd, mcd.relations[i])
        /\ ( /\ mcd.inheritances = <<>>
             /\ mcd.associativeEntities = <<>>
             /\ \A i \in 1..Len(mcd.relations) : OwnTableRelation(mcd.relations[i]) ) =>
               /\ Len(mld) = Len(mcd.entities) + Len(mcd.relations)
               /\ \A e \in 1..Len(mcd.entities) : mld[e] = EntityTable(mcd.entities[e])

\* a many-to-many relation with an attribute and a ternary relation have
\* both been converted
C13_Witness ==
    /\ MldBuilt
    /\ mcd.inheritances = <<>>
    /\ mcd.associativeEntities = <<>>
    /\ Len(mcd.relations) = 2
    /\ \A i \in 1..2 : OwnTableRelation(mcd.relations[i]) /\ WellNamedRelation(mcd, i)
    /\ Len(mcd.relations[1].participants) = 2
    /\ Len(mcd.relations[1].attributes) = 1
    /\ Len(mcd.relations[2].participants) = 3
    /\ Len(mld) = 5


\* how many constraints of one type a physical column carries
ConstraintCount(col, type) ==
    Cardinality({i \in 1..Len(col.constraints) : col.constraints[i].type = type})

\* C14: in the physical model convertMldToMpd returns, every column that is
\* a primary key or a foreign key carries NOT NULL exactly once, every
\* column whose lower-cased name contains "email" carries UNIQUE, and every
\* foreign key has onDelete = onUpdate = CASCADE
C14_ConstraintAssembly ==
    MpdBuilt =>
        \A t \in 1..Len(mpd) : \A i \in 1..Len(mpd[t].columns) :
            /\ (mpd[t].columns[i].isPrimaryKey \/ mpd[t].columns[i].foreignKey # NoMpdFk)
                  => ConstraintCount(mpd[t].columns[i], "NOT NULL") = 1
            /\ includes(toLowerCase(mpd[t].columns[i].name), "email")
                  => ConstraintCount(mpd[t].columns[i], "UNIQUE") >= 1
            /\ mpd[t].columns[i].foreignKey # NoMpdFk
                  => /\ mpd[t].columns[i].foreignKey.onDelete = "CASCADE"
                     /\ mpd[t].columns[i].foreignKey.onUpdate = "CASCADE"

\* a physical model has been built with a column that is primary key and
\* foreign key and named after an e-mail address, and with a foreign key
\* that is no primary key
C14_Witness ==
    /\ MpdBuilt
    /\ \E t \in 1..Len(mpd) : \E i \in 1..Len(mpd[t].columns) :
          /\ mpd[t].columns[i].isPrimaryKey
          /\ mpd[t].columns[i].foreignKey # NoMpdFk
          /\ mpd[t].columns[i].name = "email"
    /\ \E t \in 1..Len(mpd) : \E i \in 1..Len(mpd[t].columns) :
          /\ ~mpd[t].columns[i].isPrimaryKey
          /\ mpd[t].columns[i].foreignKey # NoMpdFk


\* the messages of one level among the messages returned
MessagesOf(level) == SelectSeq(messages, LAMBDA m : m.level = level)

\* some message of the level names the entity or table between quotes
Reported(level, name) ==
    \E i \in 1..Len(messages) :
        /\ messages[i].level = level
        /\ includes(messages[i].message, "\"" \o name \o "\"")

\* C15: at each of the three stages the validator returns a message of
\* level 'error' for every entity or table without a primary key:
\* validateMcd for an entity, validateMld for a logical table, validateMpd
\* for a physical table
C15_MissingKeyIsError ==
    /\ pc = "validatedMcd" =>
          \A e \in 1..Len(mcd.entities) :
              KeyAttributes(mcd.entities[e]) = {} => Reported("error", mcd.entities[e].name)
    /\ pc = "validatedMld" =>
          \A t \in 1..Len(mld) :
              (\A i \in 1..Len(mld[t].columns) : ~mld[t].columns[i].isPrimaryKey)
                  => Reported("error", mld[t].name)
    /\ pc = "validatedMpd" =>
          \A t \in 1..Len(mpd) :
              (\A i \in 1..Len(mpd[t].columns) : ~mpd[t].columns[i].isPrimaryKey)
                  => Reported("error", mpd[t].name)


\* some column of a table named a is a foreign key to the table named b
Linked(tables, a, b) ==
    \E t \in 1..Len(tables) :
        /\ tables[t].name = a
        /\ \E i \in 1..Len(tables[t].columns) :
              /\ tables[t].columns[i].foreignKey # NoFk
              /\ tables[t].columns[i].foreignKey.referencedTable = b

RECURSIVE LinkedWithin(_, _, _, _)
\* b is reached from a by at least one and at most k foreign keys
LinkedWithin(tables, a, b, k) ==
    /\ k > 0
    /\ \/ Linked(tables, a, b)
       \/ \E c \in NamesOf(tables) :
             Linked(tables, a, c) /\ LinkedWithin(tables, c, b, k - 1)

\* the directed foreign-key graph of the tables has a cycle
HasFkCycle(tables) ==
    \E n \in NamesOf(tables) : LinkedWithin(tables, n, n, Cardinality(NamesOf(tables)))

\* the messages that report a cycle
CycleWarnings ==
    SelectSeq(messages, LAMBDA m : startsWith(m.message, "Cycle de références FK"))

\* the path starts and ends on one table and follows foreign keys
RealCycle(tables, path) ==
    /\ Len(path) >= 2
    /\ path[1] = path[Len(path)]
    /\ \A k \in 1..(Len(path) - 1) : Linked(tables, path[k], path[k + 1])

\* C16: validateMld returns at least one cycle message exactly when the
\* foreign-key graph of the tables has a cycle, a table that references
\* itself included; the cycle messages carry, in order, the paths
\* detectCycles returns, each of which starts and ends on the same table and
\* follows a foreign key at every step; every cycle message has level
\* 'warning'
C16_CycleWarnings ==
    pc = "validatedMld" =>
        /\ (CycleWarnings # <<>>) <=> HasFkCycle(mld)
        /\ CycleWarnings = [i \in 1..Len(detectCycles(mld)) |->
                               Message("warning",
                                   "Cycle de références FK détecté : "
                                   \o join(detectCycles(mld)[i], " → ") \o ".")]
        /\ \A i \in 1..Len(detectCycles(mld)) : RealCycle(mld, detectCycles(mld)[i])

\* validateMld has reported two cycles: a table that references itself, and
\* two tables that reference each other
C16_Witness ==
    /\ pc = "validatedMld"
    /\ Len(CycleWarnings) = 2
    /\ \E i \in 1..Len(detectCycles(mld)) : Len(detectCycles(mld)[i]) = 2
    /\ \E i \in 1..Len(detectCycles(mld)) : Len(detectCycles(mld)[i]) = 3


\* what parseMcd returns that the claim compares: the model and the errors
ModelAndErrors(parsed) == [model |-> parsed.model, errors |-> parsed.errors]

\* C17: for every block of the four kinds, parseMcd returns the same model
\* and the same errors whether the block is written on a single line, with
\* the opening brace on the header line or with the opening brace on the
\* next line; and in every form the extra of the block extracted is the text
\* between the name and the opening brace
C17_SameInEveryForm ==
    pc = "mcdParsed" =>
        /\ \A form \in Forms :
              ModelAndErrors(parseMcd(WriteMcd(written, form))) = ModelAndErrors(mcdParsed)
        /\ Len(extractBlocks(mcdText)) = Len(written)
        /\ \A i \in 1..Len(written) : extractBlocks(mcdText)[i].extra = written[i].extra


\* the item has the shape `EntityName (min,max)`: a word, blanks, and one
\* pair between parentheses that closes the item
ParticipantShaped(item) ==
    LET a == RunEnd(item, 1, WordChars)
        b == RunEnd(item, a, SpaceChars)
    IN  /\ a > 1
        /\ b < Len(item)
        /\ charAt(item, b) = "("
        /\ charAt(item, Len(item)) = ")"
        /\ Cardinality({k \in (b + 1)..(Len(item) - 1) : charAt(item, k) = ","}) = 1
        /\ \A k \in (b + 1)..(Len(item) - 1) : charAt(item, k) \notin {"(", ")"}

\* the (min,max) of such an item, the blanks around it left out
PairOfItem(item) == trim(SubSeq(item, indexOf(item, "(") + 1, Len(item) - 1))

\* the items of a block that have the shape of a participant, with a valid
\* or with an invalid pair
ShapedItems(b, valid) ==
    {k \in 1..Len(b.items) :
        /\ ParticipantShaped(b.items[k])
        /\ (PairOfItem(b.items[k]) \in Cardinalities) = valid}

\* the relation blocks written, in order
RelationBlocks == SelectSeq(written, LAMBDA b : toUpperCase(b.keyword) = "RELATION")

\* C20: for every item `EntityName (min,max)` of a RELATION block whose pair
\* is none of 0,1 / 1,1 / 0,n / 1,n, parseMcd records an error that names
\* the relation and the pair; the relation holds one participant per item
\* with a valid pair and none for the others; and it gets the
\* fewer-than-2-participants error when fewer than two valid ones remain
C20_InvalidCardinalityReported ==
    pc = "mcdParsed" =>
        /\ Len(mcdParsed.model.relations) = Len(RelationBlocks)
        /\ \A r \in 1..Len(RelationBlocks) :
              /\ \A k \in ShapedItems(RelationBlocks[r], FALSE) :
                    \E e \in 1..Len(mcdParsed.errors) :
                        /\ includes(mcdParsed.errors[e],
                                    "\"" \o PairOfItem(RelationBlocks[r].items[k]) \o "\"")
                        /\ includes(mcdParsed.errors[e],
                                    "\"" \o RelationBlocks[r].name \o "\"")
              /\ Len(mcdParsed.model.relations[r].participants)
                    = Cardinality(ShapedItems(RelationBlocks[r], TRUE))
              /\ Cardinality(ShapedItems(RelationBlocks[r], TRUE)) < 2 =>
                    \E e \in 1..Len(mcdParsed.errors) :
                        includes(mcdParsed.errors[e], "doit avoir au moins 2 participants")

\* the objects of a model: its tables and their columns
ObjectsOf(tables) ==
    {tables[t] : t \in 1..Len(tables)}
    \cup UNION { {tables[t].columns[i] : i \in 1..Len(tables[t].columns)} :
                   t \in 1..Len(tables) }

\* no table and no column of the model is an object the caller held
Fresh(tables) == \A o \in ObjectsOf(tables) : "ref" \notin DOMAIN o

\* no table and no column of a result is an object of the input, and a
\* second call returns a result equal to the first
FreshEqualResults ==
    /\ pc \in {"heldMcdConverted", "heldMcdConvertedAgain"} => Fresh(mld)
    /\ pc \in {"heldMldConverted", "heldMldConvertedAgain"} => Fresh(mpd)
    /\ pc = "heldMcdConvertedAgain" => (Fresh(again) /\ again = mld)
    /\ pc = "heldMldConvertedAgain" => (Fresh(again) /\ again = mpd)

\* a call leaves the model it is given as it was
InputUnchanged ==
    /\ pc \in {"heldMcd", "heldMcdConverted"} => mcd' = mcd
    /\ pc \in {"heldMld", "heldMldConverted"} => mld' = mld

StructuralError(found) == \E i \in 1..Len(found) : found[i].level = "error"

\* the source block of the command that ran exists and its model carries
\* an error: a syntax error of the parser or a structural error of the
\* validator
SourceCarriesError ==
    IF pc = "commandConvertMldToMpd"
    THEN LET b == extractCodeBlock(opened, "merise-mld") IN
         /\ b.found
         /\ \/ parseMld(b.lines).errors # <<>>
            \/ StructuralError(validateMld(parseMld(b.lines).tables))
    ELSE LET b == extractCodeBlock(opened, "merise-mcd") IN
         /\ b.found
         /\ \/ parseMcd(b.lines).errors # <<>>
            \/ StructuralError(validateMcd(parseMcd(b.lines).model))

CommandRan ==
    pc \in {"commandConvertMcdToMld", "commandConvertMldToMpd", "commandConvertMcdToMpd"}

\* C19: a conversion command whose source block carries an error (syntax
\* error of the parser, or structural error of the validator: missing
\* primary key, relation with fewer than two participants, reference to an
\* entity or table that does not exist) converts nothing: it shows no
\* notice of conversion and leaves the document as it was opened
C19_ErrorStopsCommand ==
    (CommandRan /\ SourceCarriesError) => (doc = opened /\ notice \notin Converted)

\* the strategy handleInheritance runs an inheritance under
StrategyOf(inh) == IF inh.strategy # "" THEN inh.strategy ELSE settings.inheritanceStrategy

\* the inheritances of the conceptual model converted under a strategy and
\* whose parent has a primary key
GroupsUnder(strategy) ==
    {i \in 1..Len(mcd.inheritances) :
        /\ StrategyOf(mcd.inheritances[i]) = strategy
        /\ getPrimaryKey(EntityGet(mcd.entities, mcd.inheritances[i].parentEntity)) # ""}

\* the indexes of the columns of a name in a table
ColumnsNamed(table, name) == {c \in 1..Len(table.columns) : table.columns[c].name = name}

\* the table holds exactly one column of the parent's key name, primary key
\* and foreign key to the parent's key
InheritsKey(table, parentName, parentPk) ==
    /\ Cardinality(ColumnsNamed(table, parentPk)) = 1
    /\ \A c \in ColumnsNamed(table, parentPk) :
          /\ table.columns[c].isPrimaryKey
          /\ table.columns[c].foreignKey.referencedTable = parentName
          /\ table.columns[c].foreignKey.referencedColumn = parentPk

\* C21: under table_per_class, every child table of an inheritance whose
\* parent has a primary key holds exactly one column named after that key,
\* and the column is primary key and foreign key to the parent's key; also
\* when a relation already links the child to the parent
C21_ChildInheritsParentKey ==
    MldBuilt =>
        \A g \in GroupsUnder("table_per_class") :
            \A k \in 1..Len(mcd.inheritances[g].childEntities) :
                \A t \in 1..Len(mld) :
                    mld[t].name = mcd.inheritances[g].childEntities[k] =>
                        InheritsKey(mld[t], mcd.inheritances[g].parentEntity,
                            getPrimaryKey(EntityGet(mcd.entities,
                                                    mcd.inheritances[g].parentEntity)))

\* the names of the non-primary-key attributes of the children of a group
ChildAttributeNames(inh) ==
    UNION { LET e == EntityGet(mcd.entities, inh.childEntities[k]) IN
            {e.attributes[j].name : j \in {j \in 1..Len(e.attributes) :
                                              ~e.attributes[j].isPrimaryKey}} :
            k \in 1..Len(inh.childEntities) }

\* the names of the non-derived attributes of an entity: the columns its
\* table holds before the inheritances are handled
OwnColumnNames(entity) ==
    {entity.attributes[j].name : j \in {j \in 1..Len(entity.attributes) :
                                          ~entity.attributes[j].isDerived}}

\* the parent table of a flattened group: one type_discriminator, and one
\* column per name of the children's non-key attributes, a non-key column
\* where the parent did not hold the name
Flattened(table, inh) ==
    /\ Cardinality(ColumnsNamed(table, "type_discriminator")) = 1
    /\ \A n \in ChildAttributeNames(inh) :
          /\ Cardinality(ColumnsNamed(table, n)) = 1
          /\ n \notin OwnColumnNames(EntityGet(mcd.entities, inh.parentEntity)) =>
                \A c \in ColumnsNamed(table, n) : ~table.columns[c].isPrimaryKey

CopiedAhead(table, parentEntity, childEntity) ==
    LET own  == OwnColumnNames(childEntity)
        news == SelectSeq(parentEntity.attributes, LAMBDA a : a.name \notin own)
    IN  /\ \A j \in 1..Len(parentEntity.attributes) :
              \E c \in 1..Len(table.columns) :
                  /\ table.columns[c].name = parentEntity.attributes[j].name
                  /\ table.columns[c].isPrimaryKey
                        = parentEntity.attributes[j].isPrimaryKey
        /\ Len(table.columns) >= Len(news)
        /\ \A j \in 1..Len(news) :
              /\ table.columns[Len(news) + 1 - j].name = news[j].name
              /\ table.columns[Len(news) + 1 - j].isPrimaryKey = news[j].isPrimaryKey

\* C23: under table_per_subclass, every child table holds a column for every
\* attribute of the parent entity, with the parent's primary-key flag for
\* that attribute; the copied columns precede the columns the child table
\* had before; and no table named after the parent remains
C23_ParentCopiedIntoChildren ==
    MldBuilt =>
        \A g \in GroupsUnder("table_per_subclass") :
            /\ \A t \in 1..Len(mld) : mld[t].name # mcd.inheritances[g].parentEntity
            /\ \A k \in 1..Len(mcd.inheritances[g].childEntities) :
                  \A t \in 1..Len(mld) :
                      mld[t].name = mcd.inheritances[g].childEntities[k] =>
                          CopiedAhead(mld[t],
                              EntityGet(mcd.entities, mcd.inheritances[g].parentEntity),
                              EntityGet(mcd.entities,
                                        mcd.inheritances[g].childEntities[k]))

\* the names of the attributes declared DERIVED on some entity and declared
\* by no entity without DERIVED
DerivedNames ==
    UNION { {mcd.entities[e].attributes[j].name :
                j \in {j \in 1..Len(mcd.entities[e].attributes) :
                          mcd.entities[e].attributes[j].isDerived}} :
            e \in 1..Len(mcd.entities) }
    \ UNION { OwnColumnNames(mcd.entities[e]) : e \in 1..Len(mcd.entities) }

\* the names of the relation and associative attributes
OtherAttributeNames ==
    UNION { {mcd.relations[r].attributes[j].name :
                j \in 1..Len(mcd.relations[r].attributes)} :
            r \in 1..Len(mcd.relations) }
    \cup UNION { {mcd.associativeEntities[a].attributes[j].name :
                    j \in 1..Len(mcd.associativeEntities[a].attributes)} :
                 a \in 1..Len(mcd.associativeEntities) }

\* C24: whatever the inheritance strategy, no attribute declared DERIVED on
\* an entity is a column of a table of the logical model (in the entity's
\* own table, or in a parent or child table after the inheritances are
\* flattened; the columns that reference another table are left aside), and
\* every non-derived attribute of an entity is, in the table
\* named after the entity, a column with the attribute's primary-key flag
C24_DerivedAttributesDropped ==
    MldBuilt =>
        /\ \A t \in 1..Len(mld) : \A c \in 1..Len(mld[t].columns) :
              mld[t].columns[c].foreignKey = NoFk =>
                  mld[t].columns[c].name \notin DerivedNames \ OtherAttributeNames
        /\ \A e \in 1..Len(mcd.entities) : \A t \in 1..Len(mld) :
              mld[t].name = mcd.entities[e].name =>
                  \A j \in 1..Len(mcd.entities[e].attributes) :
                      LET a == mcd.entities[e].attributes[j] IN
                      (~a.isDerived /\ mld[t].columns # <<>>) =>
                          \A c \in ColumnsNamed(mld[t], a.name) :
                              mld[t].columns[c].foreignKey = NoFk =>
                                  mld[t].columns[c].isPrimaryKey = a.isPrimaryKey

\* the conceptual model without its associative entities
WithoutAssociatives(m) == [m EXCEPT !.associativeEntities = <<>>]

\* the column is a primary key that references the key of the participant
KeyOfParticipant(column, participant) ==
    /\ column.isPrimaryKey
    /\ column.foreignKey # NoFk
    /\ column.foreignKey.referencedTable = participant.entityName
    /\ column.foreignKey.referencedColumn =
           getPrimaryKey(EntityGet(mcd.entities, participant.entityName))

\* the table holds every attribute of the associative entity exactly once
HoldsAttributesOnce(table, assoc) ==
    \A j \in 1..Len(assoc.attributes) :
        Cardinality(ColumnsNamed(table, assoc.attributes[j].name)) = 1

\* what C25 states of the associative entity, base being the tables of the
\* model converted without its associative entities
Promoted(assoc, base) ==
    LET ri == FindRelation(mcd.relations, assoc.relationName) IN
    IF ri = 0 THEN mld = base
    ELSE LET rel == mcd.relations[ri]
             ti  == FindTable(base, rel.name)
         IN  IF ti > 0
             THEN /\ Len(mld) = Len(base)
                  /\ \A t \in 1..Len(mld) : t # ti => mld[t] = base[t]
                  /\ mld[ti].name = rel.name
                  /\ HoldsAttributesOnce(mld[ti], assoc)
             ELSE /\ Len(mld) = Len(base) + 1
                  /\ SubSeq(mld, 1, Len(base)) = base
                  /\ mld[Len(mld)].name = assoc.name
                  /\ Len(mld[Len(mld)].columns)
                         >= Len(rel.participants)
                  /\ \A p \in 1..Len(rel.participants) :
                         KeyOfParticipant(mld[Len(mld)].columns[p],
                                          rel.participants[p])
                  /\ \A c \in 1..Len(mld[Len(mld)].columns) :
                         mld[Len(mld)].columns[c].foreignKey # NoFk
                             => c <= Len(rel.participants)
                  /\ HoldsAttributesOnce(mld[Len(mld)], assoc)

\* C25: an associative entity that names an existing relation is, in the
\* logical model, one table: the table of that relation when the conversion
\* of the relation made one (no table is added), else a new table named
\* after the associative entity whose foreign keys are one primary-key
\* column per participant of the relation; the table holds every attribute
\* of the associative entity exactly once; an associative entity that names
\* no relation adds and changes no table
C25_AssociativePromoted ==
    (MldBuilt /\ Len(mcd.associativeEntities) = 1) =>
        \E base \in {convertMcdToMld(WithoutAssociatives(mcd),
                                     settings.inheritanceStrategy)} :
            Promoted(mcd.associativeEntities[1], base)

\* the logical model holds no column of that table and that name, so the
\* first and second passes record no type for it
NeverResolved(tableName, columnName) ==
    ~ \E t \in 1..Len(mld) :
          /\ mld[t].name = tableName
          /\ \E c \in 1..Len(mld[t].columns) : mld[t].columns[c].name = columnName

\* C26: a foreign-key column whose referenced (table, column) has no
\* resolved type gets, in the physical model, the type the name rules of
\* the first pass give to the foreign-key column's own name
C26_FallbackReadsOwnName ==
    MpdBuilt =>
        \A t \in 1..Len(mld) : \A c \in 1..Len(mld[t].columns) :
            LET col == mld[t].columns[c] IN
            (col.foreignKey # NoFk
             /\ NeverResolved(col.foreignKey.referencedTable,
                              col.foreignKey.referencedColumn)) =>
                mpd[t].columns[c].sqlType =
                    inferSqlType(col.name, col.isPrimaryKey, settings.sqlDialect,
                                 settings.defaultVarcharLength)

\* the constraints of one type, in list order
ConstraintsOfType(cs, type) == SelectSeq(cs, LAMBDA c : c.type = type)

\* the flags of a column in the order [PK], [FK -> ...], [NOT NULL],
\* [UNIQUE], [CHECK(expr)]
FlagsInFixedOrder(col) ==
    (IF col.isPrimaryKey THEN <<"[PK]">> ELSE <<>>)
    \o (IF col.foreignKey # NoMpdFk THEN <<MpdFkFlag(col.foreignKey)>> ELSE <<>>)
    \o ConstraintFlags(ConstraintsOfType(col.constraints, "NOT NULL"))
    \o ConstraintFlags(ConstraintsOfType(col.constraints, "UNIQUE"))
    \o ConstraintFlags(ConstraintsOfType(col.constraints, "CHECK"))

\* the column line with its flags in the fixed order
LineInFixedOrder(col) ==
    "    " \o col.name \o " " \o col.sqlType
    \o (IF FlagsInFixedOrder(col) # <<>> THEN " " \o joinFlags(FlagsInFixedOrder(col))
        ELSE "")

RECURSIVE LinesInFixedOrder(_)
\* one TABLE block per table, one line per column, a blank line after each
LinesInFixedOrder(tables) ==
    IF tables = <<>> THEN <<>>
    ELSE <<"TABLE " \o Head(tables).name \o " {">>
         \o [i \in 1..Len(Head(tables).columns) |->
                LineInFixedOrder(Head(tables).columns[i])]
         \o <<"}", "">>
         \o LinesInFixedOrder(Tail(tables))

\* C27: the text generateMpdText writes for a physical model is one
\* `TABLE name { ... }` block per table with one line per column, and the
\* flags of every column line are in the order [PK], [FK -> Table.col ...],
\* [NOT NULL], [UNIQUE], [CHECK(expr)], whatever the order of the column's
\* constraints
C27_FlagsInFixedOrder ==
    pc \in {"mpdText", "mpdParsed"} => mpdText = trimLines(LinesInFixedOrder(mpd))

\* ------------------------------------------------------------------------
\* Inputs: a merise-mpd block whose column carries a foreign key with the
\* two referential actions
\* ------------------------------------------------------------------------

\* the actions written after ON DELETE and ON UPDATE: the five of the list
\* in upper case, some in another case, and words that are not of the list
ActionWords ==
    {"CASCADE", "cascade", "SET NULL", "Set Null", "SET DEFAULT", "RESTRICT",
     "NO ACTION", "DROP", "SET", "SET TO NULL"}

\* the flags written before the foreign key
FlagsBefore == {"", "[PK] ", "[NOT NULL] "}

FkLine(before, x, y) ==
    "    id_a INT " \o before \o "[FK -> A.id_a ON DELETE " \o x
    \o " ON UPDATE " \o y \o "]"

FkText(before, x, y) == <<"TABLE B {", FkLine(before, x, y), "}">>

InitFkText ==
    /\ pc = "mpdText"
    /\ mpdText \in { FkText(b, x, y) : b \in FlagsBefore, x \in ActionWords,
                                       y \in ActionWords }
    /\ mcd = NoMcd
    /\ settings = DefaultSettings
    /\ mld = <<>>
    /\ mldText = <<>>
    /\ mldParsed = NoParse
    /\ mpd = <<>>
    /\ mpdParsed = NoParse
    /\ sorted = <<>>
    /\ visited = {}
    /\ remaining = <<>>
    /\ messages = <<>>
    /\ written = <<>>
    /\ mcdText = <<>>
    /\ mcdParsed = NoMcdParse
    /\ opened = <<>>
    /\ doc = <<>>
    /\ notice = ""
    /\ again = <<>>

NextFkText == ParseMpd

SpecFkText == InitFkText /\ [][NextFkText]_vars

\* the action of the list that the word is, whatever its case ("": none)
ActionNamed(word) ==
    IF toUpperCase(word) \in {"CASCADE", "SET NULL", "SET DEFAULT", "RESTRICT",
                              "NO ACTION"}
    THEN toUpperCase(word) ELSE ""

\* what C28 states of the parse of the block FkText(before, x, y)
FkRecorded(x, y) ==
    /\ mpdParsed.errors = <<>>
    /\ Len(mpdParsed.tables) = 1
    /\ Len(mpdParsed.tables[1].columns) = 1
    /\ mpdParsed.tables[1].columns[1].foreignKey # NoMpdFk
    /\ mpdParsed.tables[1].columns[1].foreignKey.referencedTable = "A"
    /\ mpdParsed.tables[1].columns[1].foreignKey.referencedColumn = "id_a"
    /\ mpdParsed.tables[1].columns[1].foreignKey.onDelete = ActionNamed(x)
    /\ mpdParsed.tables[1].columns[1].foreignKey.onUpdate = ActionNamed(y)

\* C28: parseMpd of a column line carrying
\* [FK -> A.id_a ON DELETE x ON UPDATE y] records, without error, the
\* foreign key to A.id_a; onDelete is the action x names among CASCADE,
\* SET NULL, SET DEFAULT, RESTRICT, NO ACTION, whatever its case, and is
\* unset when x names none, the foreign key being recorded all the same;
\* likewise onUpdate and y
C28_ReferentialActionsParsed ==
    pc = "mpdParsed" =>
        \A b \in FlagsBefore : \A x \in ActionWords : \A y \in ActionWords :
            mpdText = FkText(b, x, y) => FkRecorded(x, y)

\* the names of the entities, relations and associative entities of the
\* conceptual model, in declaration order
DeclaredNames ==
    [i \in 1..Len(mcd.entities) |-> mcd.entities[i].name]
    \o [i \in 1..Len(mcd.relations) |-> mcd.relations[i].name]
    \o [i \in 1..Len(mcd.associativeEntities) |-> mcd.associativeEntities[i].name]

PairwiseDistinct(names) ==
    \A i, j \in 1..Len(names) : i # j => names[i] # names[j]

\* C29: when the names of the entities, relations and associative entities
\* of the conceptual model are pairwise distinct, the tables convertMcdToMld
\* returns have pairwise distinct names, under every inheritance strategy
C29_TableNamesDistinct ==
    (MldBuilt /\ PairwiseDistinct(DeclaredNames)) =>
        PairwiseDistinct([t \in 1..Len(mld) |-> mld[t].name])

\* a relation has been given a table of its name, beside the tables of the
\* entities
C29_Witness ==
    /\ pc = "mld"
    /\ PairwiseDistinct(DeclaredNames)
    /\ \E t \in 1..Len(mld) : \E r \in 1..Len(mcd.relations) :
           mld[t].name = mcd.relations[r].name
    /\ Len(mld) > Len(mcd.entities)

CommandNames ==
    {"commandConvertMcdToMld", "commandConvertMldToMpd", "commandConvertMcdToMpd"}

\* the step is the second run of a command whose first run had an active
\* view
SecondRun == pc \in CommandNames /\ notice # NoActiveFile /\ pc' = Again(pc)

====
